---- MODULE Spec2Model ----
(***************************************************************************)
(* Model of the reservation automation of hnbt-v2:                         *)
(*   - DynamicMultiAccountExecutor (dynamic-executor.js): the allocator    *)
(*     loop, the per-candidate validation completions, the monitor loop    *)
(*     and the task bookkeeping                 -> specification Spec      *)
(*   - one run of a purchase flow: executeFlowWithProxyManager of either   *)
(*     executor with the account's IndependentProxyManager, or             *)
(*     executePurchaseFlow with the global ProxyManager singleton          *)
(*                                               -> specification SpecFlow *)
(*   - the two proxy managers under arbitrary call sequences               *)
(*                                               -> specification SpecPM   *)
(*   - executeStepWithProxyManager around an arbitrary step function       *)
(*                                               -> specification SpecWrap *)
(*   - the allocator loop alone, on a list longer than its attempt bound   *)
(*     and with a route source that always delivers, under fairness        *)
(*                                               -> specification SpecLive *)
(*   - one executor instance used for executePrepareMode and then for      *)
(*     startPurchaseFlow or a dynamic run   -> specification SpecTwoPhase  *)
(*   - two tasks of a dynamic run side by side, each with the manager      *)
(*     created for it                       -> specification SpecTasks     *)
(*   - a dynamic run in which no call fails -> specification SpecAllSucceed *)
(*   - isNetworkError of both managers as a function of the error object   *)
(*                                               -> specification SpecNet  *)
(*   - one top-level switchProxy call of either manager, from any count,   *)
(*     under fairness of its continuations  -> specification SpecSwitch    *)
(*   - the dynamic executor's flow around a SUBMIT step function that may  *)
(*     throw a duplicate marker             -> specification SpecStubFlow  *)
(*   - MultiAccountExecutor.executeMultipleAccounts: proxy assignment and  *)
(*     task start                           -> specification SpecMulti     *)
(*   - consecutive dynamic runs on one executor instance, the first of     *)
(*     which may end on the timeout ceiling -> specification SpecRuns      *)
(* Every network call is a suspension point; what runs between two         *)
(* suspension points of the single-threaded event loop is one action.      *)
(***************************************************************************)
EXTENDS Integers, Sequences, FiniteSets, TLC

\* ------------------------------------------------------------------ bounds
NumAccounts == 2
MaxExtra == 1

NumCallers == 2
NumRouteIds == 3
FailedCap == 2
NumListProxies == 3
MaxRuns == 2

\* ------------------------------------------------------- program constants
maxAttempts == 20
maxSwitchAttempts == 20
maxTicketRefresh == 10

\* no error object, no response on the error, no message on the error
\* (values of the kind of the present ones: a record, a record, a sequence)
NullError == [null |-> TRUE]
NoResponse == [absent |-> TRUE]
NoMessage == <<"undefined">>

\* isNetworkError has not been called
NotAsked == [manager |-> "none", answer |-> FALSE]

Accounts == 1..NumAccounts
Callers == 1..NumCallers
\* identities of validated route objects; a new object differs from the current one
RouteIds == 1..NumRouteIds
NoProxy == 0
\* undefined, written as the one-entry map under key 0, which no account has, so
\* that it can be compared with a map of any size
UNDEF == <<[key |-> 0, val |-> 0]>>

VARIABLES
    \* DynamicMultiAccountExecutor instance state
    runPhase,          \* "idle" | "running" | "returned": executeDynamicMultipleAccounts;
                       \* "preparing" | "prepared": executePrepareMode;
                       \* "started" | "collected" | "startThrew": startPurchaseFlow
    accountList,       \* the argument of the run
    accountQueue,      \* this.accountQueue
    proxyQueue,        \* this.proxyQueue
    runningTasks,      \* keys of this.runningTasks
    results,           \* this.results, a Map in insertion order
    preparedAccounts,  \* this.preparedAccounts: UNDEF or the prepared accounts
    boundProxy,        \* account -> the validated route its task was started with
    startCount,        \* account -> number of startSingleAccountTask calls
    \* startContinuousProxyValidation
    apc,               \* "idle" | "loop" | "fetch" | "validating" | "sleep" | "done"
    attempt,
    waitingAccounts,
    batchValidated,
    pending,           \* number of candidates of the batch whose testProxyIP is in flight
    nextRoute,         \* identity of the next validatedProxy object (created at line 321)
    \* startDynamicAccountExecution
    mpc,               \* "idle" | "check" | "sleep" | "done"
    elapsed,           \* Date.now() - startTime > maxWaitTime
    timedOut,          \* the monitor left its loop through the ceiling break
    pendingAtTimeout,  \* the accounts waiting or in flight at that break
    finalResults,      \* the array executeDynamicMultipleAccounts returned
    lastTest,          \* outcome of the testProxyIP call that settled last in this run
    failedTests,       \* candidates of this run whose test failed, counted up to FailedCap
    fetchCalls,        \* getProxyFromSource calls the allocator loop made in this run
    \* IndependentProxyManager, one per account (multi-proxy-manager.js)
    switchCount,       \* account -> this.switchCount
    currentProxy,      \* account -> this.currentProxy (NoProxy is null)
    swFetched,         \* account -> its switchProxy call in progress (or its last one)
                       \*   has requested a candidate from getProxyFromSource
    swpc,              \* account -> where its switchProxy call stands:
                       \*   "idle" | "acquire" | "sleep" | "test" | "ret"
    swRet,             \* account -> the value the finished switchProxy call returned
    \* ProxyManager, the global singleton (proxy-manager.js)
    gSwitchCount,      \* proxyManager.switchCount
    gProxyType,        \* proxyManager.currentProxyType
    gFetched,          \* caller -> the same for its call of the global switchProxy
    gpc,               \* caller -> where its switchProxy call stands:
                       \*   "idle" | "acquire" | "test" | "ret"
    gRet,              \* caller -> the value the finished call returned
    gLastRoute,        \* identity of the route object the singleton created last
    actor,             \* the account whose task took the last step (0: a step of the
                       \*   executor itself), for the frame conditions of SpecTasks
    callEntry,         \* switchCount at the entry of the last top-level switchProxy call (SpecSwitch)
    callFetches,       \* getProxyFromSource calls made in that call so far
    callPassed,        \* a candidate of that call passed its test
    lastCall,          \* the manager method whose code ran last (SpecPM)
    taskAt,            \* per account: "none", or the step its running flow awaits (SpecTasks, SpecAllSucceed)
    netError,          \* the error object isNetworkError is asked about (SpecNet)
    netAnswer,         \* NotAsked, or which manager was asked and what it answered
    machines,          \* the state machines (executeSingleAccountWithProxy calls) in flight, of this run
                       \*   and left by earlier runs of the instance (SpecRuns)
    multi,             \* MultiAccountExecutor: the executeMultipleAccounts call (SpecMulti)
    harness,           \* which manager the call sequences of SpecPM exercise
    \* ---- one run of a purchase flow
    fKind,             \* "dynamic" | "multi" (executeFlowWithProxyManager) | "single" (executePurchaseFlow)
    fpc,               \* "idle" | "call" | "switch" | "retry" | "notify" | "done"
    fStep,             \* "fetch" | "verify" | "submit"
    ticketRefreshCount,
    currentProxyInfo,  \* executePurchaseFlow's local route
    fResult,           \* the value the flow returned
    notified,          \* status of the push notification the flow requested
    duplicateSeen,     \* the backend answered a SUBMIT with the duplicate rejection
    callAfterDuplicate,\* a SUBMIT or FETCH call was issued after that answer
    ticketInvalidSeen, \* number of ticket-invalid answers to SUBMIT in this run
    \* ---- the step-wrapper invocation in progress (or the last one)
    lastResponse,      \* last answer the step invocation in flight received ("none" yet)
    wStepCalls,        \* invocations of the step function by this wrapper invocation
    wSwitchCalls,      \* top-level switchProxy calls by this wrapper invocation
    callRoute,         \* route the step invocation in flight sends its requests on
    wResult            \* {success, error} of the wrapper invocation that returned last

execVars == <<runPhase, accountList, accountQueue, proxyQueue, runningTasks,
              results, preparedAccounts, boundProxy, startCount,
              apc, attempt, waitingAccounts, batchValidated, pending,
              nextRoute, mpc, elapsed, timedOut, pendingAtTimeout, finalResults,
              lastTest, failedTests, fetchCalls>>

ghostVars == <<lastTest, failedTests, fetchCalls>>

indVars == <<switchCount, currentProxy, swpc, swRet, swFetched>>
gVars == <<gSwitchCount, gProxyType, gpc, gRet, gLastRoute, gFetched>>
netVars == <<netError, netAnswer>>
callVars == <<callEntry, callFetches, callPassed>>
harnessVars == <<harness, multi, machines, lastCall, callVars, actor, netVars, taskAt>>
pmVars == <<indVars, gVars, harnessVars>>

wrapVars == <<lastResponse, wStepCalls, wSwitchCalls, callRoute, wResult>>

flowVars == <<fKind, fpc, fStep, ticketRefreshCount, currentProxyInfo, fResult, notified,
              duplicateSeen, callAfterDuplicate, ticketInvalidSeen, wrapVars>>

vars == <<execVars, pmVars, flowVars>>

\* a fresh executor instance: its first run is to come, nothing is in flight
NoMachines == [run |-> 0, live |-> {}, stale |-> {}]

\* no call of executeMultipleAccounts yet
MultiIdle ==
    [phase |-> "idle", list |-> <<>>, m |-> 0,
     task |-> [a \in Accounts |-> [pc |-> "none", idx |-> 0]]]

\* ------------------------------------------------------------ helpers
Range(s) == {s[i] : i \in DOMAIN s}

RECURSIVE SeqsOver(_, _)
\* the sequences without repetition over S of length at most n
SeqsOver(S, n) ==
    IF n = 0 THEN {<<>>}
    ELSE LET shorter == SeqsOver(S, n - 1)
         IN shorter \cup {Append(q, x) : q \in shorter, x \in S}

InjectiveSeqs(S) ==
    {q \in SeqsOver(S, Cardinality(S)) : \A i, j \in DOMAIN q : i # j => q[i] # q[j]}

\* Map.set on a Map kept in insertion order: an existing key keeps its place
MapSet(m, key, val) ==
    IF \E i \in DOMAIN m : m[i].key = key
    THEN [i \in DOMAIN m |-> IF m[i].key = key THEN [key |-> key, val |-> val] ELSE m[i]]
    ELSE Append(m, [key |-> key, val |-> val])

MapKeys(m) == {m[i].key : i \in DOMAIN m}

\* The results executeSingleAccountWithProxy can resolve with (lines 498-505): the
\* flow's success flag and, when it failed, the error string the flow returned.
FlowResults ==
    { [success |-> TRUE,  error |-> "none"],
      [success |-> FALSE, error |-> "flowError"] }

\* ===================================================================
\* DynamicMultiAccountExecutor
\* ===================================================================

\* this.accountQueue.shift(): the queue after the head was taken
ShiftQueueKeep(q) == q
ShiftQueue(q) == Tail(q)

\* the value this.accountQueue.shift() returns (lines 330, 392)
ShiftedAccountNewest(q) == q[Len(q)]
ShiftedAccount(q) == Head(q)

\* validateAndImmediatelyAssign, lines 329-363: the free-route queue after a
\* candidate validated; it is pushed only when no account took it
QueueValidatedAlways(pq, proxy, assigned) == Append(pq, proxy)
QueueValidated(pq, proxy, assigned) == IF assigned THEN pq ELSE Append(pq, proxy)

\* startSingleAccountTask: the task is created and stored under the account key
StartSingleAccountTask(st, account, proxy) ==
    [st EXCEPT !.running = @ \cup {account},
               !.bound = [@ EXCEPT ![account] = proxy],
               !.starts = [@ EXCEPT ![account] = @ + 1]]

RECURSIVE TryAssignProxyToAccount(_)
\* tryAssignProxyToAccount: pairs the two queues head to head while both hold an entry
TryAssignProxyToAccount(st) ==
    IF Len(st.pq) > 0 /\ Len(st.aq) > 0
    THEN TryAssignProxyToAccount(
             StartSingleAccountTask(
                 [st EXCEPT !.pq = Tail(st.pq), !.aq = ShiftQueue(st.aq)],
                 ShiftedAccount(st.aq), Head(st.pq)))
    ELSE st

ExecState ==
    [pq |-> proxyQueue, aq |-> accountQueue, running |-> runningTasks,
     bound |-> boundProxy, starts |-> startCount]

SetExecState(st) ==
    /\ proxyQueue' = st.pq
    /\ accountQueue' = st.aq
    /\ runningTasks' = st.running
    /\ boundProxy' = st.bound
    /\ startCount' = st.starts

\* executeDynamicMultipleAccounts, lines 168-181: per-run state is cleared and the
\* two loops are started
ExecuteDynamicMultipleAccounts(list) ==
    /\ runPhase \in {"idle", "prepared", "returned"}
    /\ lastTest' = "none"
    /\ failedTests' = 0
    /\ fetchCalls' = 0
    /\ runPhase' = "running"
    /\ accountList' = list
    /\ results' = <<>>
    /\ runningTasks' = {}
    /\ proxyQueue' = <<>>
    /\ accountQueue' = list
    /\ apc' = "loop"
    /\ attempt' = 1
    /\ mpc' = "check"
    /\ elapsed' = FALSE
    /\ UNCHANGED <<preparedAccounts, boundProxy, startCount,
                   waitingAccounts, batchValidated, pending, nextRoute,
                   timedOut, pendingAtTimeout, finalResults>>

\* executePrepareMode, lines 805-819: per-run state is cleared, preparedAccounts
\* is created and only the allocator loop is started
ExecutePrepareMode(list) ==
    /\ runPhase = "idle"
    /\ lastTest' = "none"
    /\ failedTests' = 0
    /\ fetchCalls' = 0
    /\ runPhase' = "preparing"
    /\ accountList' = list
    /\ results' = <<>>
    /\ runningTasks' = {}
    /\ proxyQueue' = <<>>
    /\ accountQueue' = list
    /\ preparedAccounts' = <<>>
    /\ apc' = "loop"
    /\ attempt' = 1
    /\ UNCHANGED <<boundProxy, startCount, waitingAccounts, batchValidated, pending,
                   nextRoute, mpc, elapsed, timedOut, pendingAtTimeout, finalResults>>

\* executePrepareMode, lines 819-826: the allocator loop ended
PrepareModeReturn ==
    /\ runPhase = "preparing"
    /\ apc = "done"
    /\ runPhase' = "prepared"
    /\ UNCHANGED <<accountList, accountQueue, proxyQueue, runningTasks, results,
                   preparedAccounts, boundProxy, startCount, apc, attempt,
                   waitingAccounts, batchValidated, pending, nextRoute, mpc, elapsed,
                   timedOut, pendingAtTimeout, finalResults>>

\* startContinuousProxyValidation, line 209: the while condition
AllocMayContinueOneMore(aq, n) == Len(aq) > 0 /\ n <= maxAttempts + 1
AllocMayContinue(aq, n) == Len(aq) > 0 /\ n <= maxAttempts

\* startContinuousProxyValidation, line 209-220: the loop test and the request
AllocLoop ==
    /\ apc = "loop"
    /\ IF AllocMayContinue(accountQueue, attempt)
       THEN /\ waitingAccounts' = Len(accountQueue)
            /\ apc' = "fetch"
            /\ fetchCalls' = fetchCalls + 1
       ELSE /\ apc' = "done"
            /\ UNCHANGED <<waitingAccounts, fetchCalls>>
    /\ UNCHANGED <<lastTest, failedTests>>
    /\ UNCHANGED <<runPhase, accountList, accountQueue, proxyQueue, runningTasks,
                   results, preparedAccounts, boundProxy, startCount,
                   attempt, batchValidated, pending, nextRoute, mpc,
                   elapsed, timedOut, pendingAtTimeout, finalResults>>

\* lines 220-235: getProxyFromSource resolved with k candidates; an empty list
\* backs off and uses one attempt, otherwise every candidate's validation starts
AllocFetchReturn(k) ==
    /\ apc = "fetch"
    /\ IF k = 0
       THEN /\ attempt' = attempt + 1
            /\ apc' = "sleep"
            /\ UNCHANGED <<batchValidated, pending>>
       ELSE /\ batchValidated' = 0
            /\ pending' = k
            /\ apc' = "validating"
            /\ UNCHANGED attempt
    /\ UNCHANGED <<runPhase, accountList, accountQueue, proxyQueue, runningTasks,
                   results, preparedAccounts, boundProxy, startCount,
                   waitingAccounts, nextRoute, mpc, elapsed, timedOut, pendingAtTimeout, finalResults>>

\* lines 265-273: getProxyFromSource rejected
AllocFetchThrow ==
    /\ apc = "fetch"
    /\ attempt' = attempt + 1
    /\ apc' = IF attempt + 1 <= maxAttempts THEN "sleep" ELSE "loop"
    /\ UNCHANGED <<runPhase, accountList, accountQueue, proxyQueue, runningTasks,
                   results, preparedAccounts, boundProxy, startCount,
                   waitingAccounts, batchValidated, pending, nextRoute,
                   mpc, elapsed, timedOut, pendingAtTimeout, finalResults>>

\* validateAndImmediatelyAssign, line 320: testResult.success
ValidationPassedAlways(ok) == TRUE
ValidationPassed(ok) == ok

\* validateAndImmediatelyAssign, line 338: this.preparedAccounts !== undefined
InPrepareModeNever(pa) == FALSE
InPrepareMode(pa) == pa # UNDEF

\* validateAndImmediatelyAssign, line 329: an account is waiting for the route
HasWaitingAccountNever(aq) == FALSE
HasWaitingAccount(aq) == Len(aq) > 0

\* validateAndImmediatelyAssign after its await testProxyIP(proxy), lines 320-371
ValidateAndImmediatelyAssign(ok) ==
    /\ apc = "validating"
    /\ pending > 0
    /\ pending' = pending - 1
    /\ lastTest' = IF ok THEN "passed" ELSE "failed"
    /\ failedTests' = IF ok \/ failedTests = FailedCap THEN failedTests ELSE failedTests + 1
    /\ UNCHANGED fetchCalls
    /\ IF ValidationPassed(ok)
       THEN LET assigned == HasWaitingAccount(accountQueue)
                proxy == nextRoute
                account == ShiftedAccount(accountQueue)
                popped == [ExecState EXCEPT !.aq = ShiftQueue(accountQueue)]
            IN /\ nextRoute' = nextRoute + 1
               /\ batchValidated' = batchValidated + 1
               /\ IF assigned
                  THEN IF InPrepareMode(preparedAccounts)
                       THEN /\ preparedAccounts' = MapSet(preparedAccounts, account, proxy)
                            /\ SetExecState([popped EXCEPT
                                   !.pq = QueueValidated(proxyQueue, proxy, TRUE)])
                       ELSE /\ SetExecState(StartSingleAccountTask(
                                   [popped EXCEPT
                                       !.pq = QueueValidated(proxyQueue, proxy, TRUE)],
                                   account, proxy))
                            /\ UNCHANGED preparedAccounts
                  ELSE /\ SetExecState([ExecState EXCEPT
                              !.pq = QueueValidated(proxyQueue, proxy, FALSE)])
                       /\ UNCHANGED preparedAccounts
       ELSE UNCHANGED <<nextRoute, batchValidated, preparedAccounts,
                        proxyQueue, accountQueue, runningTasks, boundProxy, startCount>>
    /\ UNCHANGED <<runPhase, accountList, results, apc, attempt, waitingAccounts,
                   mpc, elapsed, timedOut, pendingAtTimeout, finalResults>>

\* line 257: attempt++ after a batch was validated
AttemptAfterBatchTwice(n) == n + 2
AttemptAfterBatch(n) == n + 1

\* lines 238-263: Promise.allSettled resolved; the batch is counted
AllocBatchSettled ==
    /\ apc = "validating"
    /\ pending = 0
    /\ attempt' = AttemptAfterBatch(attempt)
    /\ apc' = IF batchValidated = 0 /\ attempt' <= maxAttempts THEN "sleep" ELSE "loop"
    /\ UNCHANGED <<runPhase, accountList, accountQueue, proxyQueue, runningTasks,
                   results, preparedAccounts, boundProxy, startCount,
                   waitingAccounts, batchValidated, pending, nextRoute,
                   mpc, elapsed, timedOut, pendingAtTimeout, finalResults>>

\* the setTimeout of lines 225, 262, 271 fired
AllocWake ==
    /\ apc = "sleep"
    /\ apc' = "loop"
    /\ UNCHANGED <<runPhase, accountList, accountQueue, proxyQueue, runningTasks,
                   results, preparedAccounts, boundProxy, startCount,
                   attempt, waitingAccounts, batchValidated, pending,
                   nextRoute, mpc, elapsed, timedOut, pendingAtTimeout, finalResults>>

\* startDynamicAccountExecution, lines 455-470: one iteration of the monitor loop
MonitorCheck ==
    /\ mpc = "check"
    /\ IF ~(Cardinality(runningTasks) > 0 \/ Len(accountQueue) > 0)
       THEN /\ mpc' = "done"
            /\ UNCHANGED <<timedOut, pendingAtTimeout, proxyQueue, accountQueue,
                           runningTasks, boundProxy, startCount>>
       ELSE IF elapsed
       THEN /\ mpc' = "done"
            /\ timedOut' = TRUE
            /\ pendingAtTimeout' = Range(accountQueue) \cup runningTasks
            /\ UNCHANGED <<proxyQueue, accountQueue, runningTasks, boundProxy, startCount>>
       ELSE IF Len(accountQueue) > 0 /\ Len(proxyQueue) = 0
       THEN /\ mpc' = "sleep"
            /\ UNCHANGED <<timedOut, pendingAtTimeout, proxyQueue, accountQueue,
                           runningTasks, boundProxy, startCount>>
       ELSE /\ mpc' = "sleep"
            /\ SetExecState(TryAssignProxyToAccount(ExecState))
            /\ UNCHANGED <<timedOut, pendingAtTimeout>>
    /\ UNCHANGED <<runPhase, accountList, results, preparedAccounts,
                   apc, attempt, waitingAccounts, batchValidated, pending,
                   nextRoute, elapsed, finalResults>>

\* the setTimeout of lines 465, 469 fired
MonitorWake ==
    /\ mpc = "sleep"
    /\ mpc' = "check"
    /\ UNCHANGED <<runPhase, accountList, accountQueue, proxyQueue, runningTasks,
                   results, preparedAccounts, boundProxy, startCount,
                   apc, attempt, waitingAccounts, batchValidated, pending,
                   nextRoute, elapsed, timedOut, pendingAtTimeout, finalResults>>

\* the wall clock passes maxWaitTime (300000 ms) after startTime, line 457
CeilingElapses ==
    /\ runPhase = "running"
    /\ mpc \in {"check", "sleep"}
    /\ ~elapsed
    /\ elapsed' = TRUE
    /\ UNCHANGED <<runPhase, accountList, accountQueue, proxyQueue, runningTasks,
                   results, preparedAccounts, boundProxy, startCount,
                   apc, attempt, waitingAccounts, batchValidated, pending,
                   nextRoute, mpc, timedOut, pendingAtTimeout, finalResults>>

\* startSingleAccountTask, lines 421-440: the task settled with a flow result
TaskComplete(account, res) ==
    /\ account \in runningTasks
    /\ results' = MapSet(results, account, res)
    /\ runningTasks' = runningTasks \ {account}
    /\ UNCHANGED <<runPhase, accountList, accountQueue, proxyQueue, preparedAccounts,
                   boundProxy, startCount, apc, attempt,
                   waitingAccounts, batchValidated, pending, nextRoute,
                   mpc, elapsed, timedOut, pendingAtTimeout, finalResults>>

\* executeDynamicMultipleAccounts, lines 184-192: both loops ended, results collected
ReturnResults ==
    /\ runPhase = "running"
    /\ apc = "done"
    /\ mpc = "done"
    /\ finalResults' = results
    /\ runPhase' = "returned"
    /\ UNCHANGED <<accountList, accountQueue, proxyQueue, runningTasks, results,
                   preparedAccounts, boundProxy, startCount, apc,
                   attempt, waitingAccounts, batchValidated, pending,
                   nextRoute, mpc, elapsed, timedOut, pendingAtTimeout>>

\* the route preparedAccounts holds for the account (its manager's current route)
PreparedRouteOf(pa, a) == pa[CHOOSE i \in DOMAIN pa : pa[i].key = a].val

\* startPurchaseFlow, lines 835-837: nothing was prepared, the call throws
StartPurchaseFlowThrows ==
    /\ runPhase = "prepared"
    /\ Len(preparedAccounts) = 0
    /\ runPhase' = "startThrew"
    /\ UNCHANGED <<accountList, accountQueue, proxyQueue, runningTasks, results,
                   preparedAccounts, boundProxy, startCount, apc,
                   attempt, waitingAccounts, batchValidated, pending,
                   nextRoute, mpc, elapsed, timedOut, pendingAtTimeout, finalResults>>

\* startPurchaseFlow, lines 839-862: the for loop calls executeFlowWithProxyManager
\* for every prepared account and stores the promise; the first await of the
\* method is the Promise.all behind the loop
StartPurchaseFlow ==
    /\ runPhase = "prepared"
    /\ Len(preparedAccounts) > 0
    /\ runPhase' = "started"
    /\ runningTasks' = runningTasks \cup MapKeys(preparedAccounts)
    /\ startCount' = [a \in DOMAIN startCount |->
                         IF a \in MapKeys(preparedAccounts) THEN startCount[a] + 1
                                                            ELSE startCount[a]]
    /\ boundProxy' = [a \in DOMAIN boundProxy |->
                         IF a \in MapKeys(preparedAccounts)
                         THEN PreparedRouteOf(preparedAccounts, a)
                         ELSE boundProxy[a]]
    /\ UNCHANGED <<accountList, accountQueue, proxyQueue, results,
                   preparedAccounts, apc,
                   attempt, waitingAccounts, batchValidated, pending,
                   nextRoute, mpc, elapsed, timedOut, pendingAtTimeout, finalResults>>

\* startPurchaseFlow, lines 847-855: a flow resolved and its then-callback stored
\* the result; the promise stays in runningTasks
PreparedTaskComplete(account, res) ==
    /\ runPhase = "started"
    /\ account \in runningTasks
    /\ account \notin MapKeys(results)
    /\ results' = MapSet(results, account, res)
    /\ UNCHANGED <<runPhase, accountList, accountQueue, proxyQueue, runningTasks,
                   preparedAccounts, boundProxy, startCount, apc,
                   attempt, waitingAccounts, batchValidated, pending,
                   nextRoute, mpc, elapsed, timedOut, pendingAtTimeout, finalResults>>

\* startPurchaseFlow, lines 862-875: Promise.all resolved, the results are returned
StartPurchaseFlowReturn ==
    /\ runPhase = "started"
    /\ runningTasks \subseteq MapKeys(results)
    /\ finalResults' = results
    /\ runPhase' = "collected"
    /\ UNCHANGED <<accountList, accountQueue, proxyQueue, runningTasks, results,
                   preparedAccounts, boundProxy, startCount, apc,
                   attempt, waitingAccounts, batchValidated, pending,
                   nextRoute, mpc, elapsed, timedOut, pendingAtTimeout>>

\* the state after `new DynamicMultiAccountExecutor()`, lines 148-155
InitExecutor ==
    /\ runPhase = "idle"
    /\ accountList = <<>>
    /\ accountQueue = <<>>
    /\ proxyQueue = <<>>
    /\ runningTasks = {}
    /\ results = <<>>
    /\ preparedAccounts = UNDEF
    /\ boundProxy = [a \in Accounts |-> NoProxy]
    /\ startCount = [a \in Accounts |-> 0]
    /\ apc = "idle"
    /\ attempt = 1
    /\ waitingAccounts = 0
    /\ batchValidated = 0
    /\ pending = 0
    /\ nextRoute = 1
    /\ mpc = "idle"
    /\ elapsed = FALSE
    /\ timedOut = FALSE
    /\ pendingAtTimeout = {}
    /\ finalResults = <<>>
    /\ lastTest = "none"
    /\ failedTests = 0
    /\ fetchCalls = 0

\* the managers before any call: `new IndependentProxyManager(...)`, part_002:9-16,
\* and `new ProxyManager()`, proxy-manager.js:9-13
InitManagers ==
    /\ switchCount = [a \in Accounts |-> 0]
    /\ currentProxy = [a \in Accounts |-> NoProxy]
    /\ swpc = [a \in Accounts |-> "idle"]
    /\ swRet = [a \in Accounts |-> NoProxy]
    /\ swFetched = [a \in Accounts |-> FALSE]
    /\ gSwitchCount = 0
    /\ gProxyType = 1
    /\ gpc = [c \in Callers |-> "idle"]
    /\ gRet = [c \in Callers |-> NoProxy]
    /\ gFetched = [c \in Callers |-> FALSE]
    /\ gLastRoute = 1

InitFlow ==
    /\ fKind = "dynamic"
    /\ fpc = "idle"
    /\ fStep = "fetch"
    /\ ticketRefreshCount = 0
    /\ currentProxyInfo = NoProxy
    /\ fResult = [success |-> FALSE, error |-> "pending"]
    /\ notified = "none"
    /\ duplicateSeen = FALSE
    /\ callAfterDuplicate = FALSE
    /\ ticketInvalidSeen = 0
    /\ lastResponse = "none"
    /\ wStepCalls = 0
    /\ wSwitchCalls = 0
    /\ callRoute = NoProxy
    /\ wResult = [success |-> FALSE, error |-> "pending"]

Init ==
    /\ InitExecutor
    /\ InitManagers
    /\ InitFlow
    /\ harness = "none"
    /\ actor = 0
    /\ netError = NullError
    /\ netAnswer = NotAsked
    /\ taskAt = [a \in Accounts |-> "none"]
    /\ lastCall = "none"
    /\ multi = MultiIdle
    /\ machines = NoMachines
    /\ callEntry = 0
    /\ callFetches = 0
    /\ callPassed = FALSE

Next ==
    \/ \E list \in InjectiveSeqs(Accounts) : runPhase = "idle" /\ ExecuteDynamicMultipleAccounts(list) /\ UNCHANGED <<pmVars, flowVars>>
    \/ \E list \in InjectiveSeqs(Accounts) : ExecutePrepareMode(list) /\ UNCHANGED <<pmVars, flowVars>>
    \/ PrepareModeReturn /\ UNCHANGED <<ghostVars, pmVars, flowVars>>
    \/ AllocLoop /\ UNCHANGED <<pmVars, flowVars>>
    \/ \E k \in 0..(waitingAccounts + MaxExtra) : AllocFetchReturn(k) /\ UNCHANGED <<ghostVars, pmVars, flowVars>>
    \/ AllocFetchThrow /\ UNCHANGED <<ghostVars, pmVars, flowVars>>
    \/ \E ok \in BOOLEAN : ValidateAndImmediatelyAssign(ok) /\ UNCHANGED <<pmVars, flowVars>>
    \/ AllocBatchSettled /\ UNCHANGED <<ghostVars, pmVars, flowVars>>
    \/ AllocWake /\ UNCHANGED <<ghostVars, pmVars, flowVars>>
    \/ MonitorCheck /\ UNCHANGED <<ghostVars, pmVars, flowVars>>
    \/ MonitorWake /\ UNCHANGED <<ghostVars, pmVars, flowVars>>
    \/ CeilingElapses /\ UNCHANGED <<ghostVars, pmVars, flowVars>>
    \/ \E account \in runningTasks, res \in FlowResults : TaskComplete(account, res) /\ UNCHANGED <<ghostVars, pmVars, flowVars>>
    \/ ReturnResults /\ UNCHANGED <<ghostVars, pmVars, flowVars>>

Spec == Init /\ [][Next]_vars

\* -------------------------------------------------------------------
\* Consecutive runs of executeDynamicMultipleAccounts on one executor instance,
\* normal mode: specification SpecRuns.  A run that ended on the timeout
\* ceiling leaves its state machines in flight; their then-handlers (lines
\* 421-440) still hold `this`.  The proxy source delivers and every candidate
\* passes its test, so the only thing that goes wrong is the ceiling.
\* -------------------------------------------------------------------
RunsRest == <<indVars, gVars, harness, multi, lastCall, callVars, actor, netVars, taskAt, flowVars>>

\* the accounts whose startSingleAccountTask ran in this step
StartedNow == {a \in Accounts : startCount'[a] # startCount[a]}

\* lines 163-181: the next run begins; what the previous run left in flight stays
RunBegins(list) ==
    /\ runPhase \in {"idle", "returned"}
    /\ machines.run < MaxRuns
    /\ ExecuteDynamicMultipleAccounts(list)
    /\ machines' = [run |-> machines.run + 1, live |-> {},
                    stale |-> machines.stale \cup machines.live]
    /\ UNCHANGED RunsRest

\* lines 320-371 and 395-403: a step of the run that may start state machines
RunValidateAndImmediatelyAssign(ok) ==
    /\ ValidateAndImmediatelyAssign(ok)
    /\ machines' = [machines EXCEPT !.live = @ \cup StartedNow]
    /\ UNCHANGED RunsRest

RunMonitorCheck ==
    /\ MonitorCheck
    /\ machines' = [machines EXCEPT !.live = @ \cup StartedNow]
    /\ UNCHANGED <<ghostVars, RunsRest>>

\* lines 421-440: the then-handler of a state machine runs, whichever run started it
MachineSettles(account, gen, res) ==
    /\ account \in machines[gen]
    /\ results' = MapSet(results, account, res)
    /\ runningTasks' = runningTasks \ {account}
    /\ machines' = [machines EXCEPT ![gen] = @ \ {account}]
    /\ UNCHANGED <<runPhase, accountList, accountQueue, proxyQueue, preparedAccounts,
                   boundProxy, startCount, apc, attempt,
                   waitingAccounts, batchValidated, pending, nextRoute,
                   mpc, elapsed, timedOut, pendingAtTimeout, finalResults>>
    /\ UNCHANGED <<ghostVars, RunsRest>>

NextRuns ==
    \/ \E list \in InjectiveSeqs(Accounts) : RunBegins(list)
    \/ AllocLoop /\ UNCHANGED <<machines, RunsRest>>
    \/ \E k \in 1..(waitingAccounts + MaxExtra) : AllocFetchReturn(k) /\ UNCHANGED <<ghostVars, machines, RunsRest>>
    \/ RunValidateAndImmediatelyAssign(TRUE)
    \/ AllocBatchSettled /\ UNCHANGED <<ghostVars, machines, RunsRest>>
    \/ RunMonitorCheck
    \/ MonitorWake /\ UNCHANGED <<ghostVars, machines, RunsRest>>
    \/ CeilingElapses /\ UNCHANGED <<ghostVars, machines, RunsRest>>
    \/ \E account \in Accounts, res \in FlowResults : MachineSettles(account, "live", res)
    \/ \E account \in Accounts, res \in FlowResults : MachineSettles(account, "stale", res)
    \/ ReturnResults /\ UNCHANGED <<ghostVars, machines, RunsRest>>

SpecRuns == Init /\ [][NextRuns]_vars

\* the places of an account key: the waiting queue, the running map, the results
PlacesOf(a) ==
    (IF a \in Range(accountQueue) THEN {"accountQueue"} ELSE {})
    \cup (IF a \in runningTasks THEN {"runningTasks"} ELSE {})
    \cup (IF a \in MapKeys(results) THEN {"results"} ELSE {})

\* C35: in normal mode, while a run is under way every account of its list is in
\* exactly one of accountQueue, runningTasks, results, and an account only moves
\* from accountQueue to runningTasks and from runningTasks to results.
C35_AccountInExactlyOnePlace ==
    /\ [](runPhase = "running" /\ preparedAccounts = UNDEF
            => \A a \in Range(accountList) : Cardinality(PlacesOf(a)) = 1)
    /\ [][runPhase = "running" /\ runPhase' = "running" /\ preparedAccounts = UNDEF
            => \A a \in Range(accountList) :
                  \/ PlacesOf(a)' = PlacesOf(a)
                  \/ PlacesOf(a) = {"accountQueue"} /\ PlacesOf(a)' = {"runningTasks"}
                  \/ PlacesOf(a) = {"runningTasks"} /\ PlacesOf(a)' = {"results"}]_vars

\* C36: a state machine left in flight by an earlier run neither adds a result
\* to, nor removes a running entry from, the run that is under way when it settles.
C36_RunsIsolated ==
    [][\A a \in Accounts :
          (a \in machines.stale /\ a \notin machines'.stale)
              => results' = results /\ runningTasks' = runningTasks]_vars

\* -------------------------------------------------------------------
\* One executor instance used in two phases: executePrepareMode, and after it
\* either startPurchaseFlow or a call of executeDynamicMultipleAccounts.
\* -------------------------------------------------------------------
NextTwoPhase ==
    \/ \E list \in InjectiveSeqs(Accounts) : ExecutePrepareMode(list) /\ UNCHANGED <<pmVars, flowVars>>
    \/ PrepareModeReturn /\ UNCHANGED <<ghostVars, pmVars, flowVars>>
    \/ StartPurchaseFlowThrows /\ UNCHANGED <<ghostVars, pmVars, flowVars>>
    \/ StartPurchaseFlow /\ UNCHANGED <<ghostVars, pmVars, flowVars>>
    \/ \E account \in runningTasks, res \in FlowResults : PreparedTaskComplete(account, res) /\ UNCHANGED <<ghostVars, pmVars, flowVars>>
    \/ StartPurchaseFlowReturn /\ UNCHANGED <<ghostVars, pmVars, flowVars>>
    \/ \E list \in InjectiveSeqs(Accounts) : runPhase = "prepared" /\ ExecuteDynamicMultipleAccounts(list) /\ UNCHANGED <<pmVars, flowVars>>
    \/ AllocLoop /\ UNCHANGED <<pmVars, flowVars>>
    \/ \E k \in 0..(waitingAccounts + MaxExtra) : AllocFetchReturn(k) /\ UNCHANGED <<ghostVars, pmVars, flowVars>>
    \/ AllocFetchThrow /\ UNCHANGED <<ghostVars, pmVars, flowVars>>
    \/ \E ok \in BOOLEAN : ValidateAndImmediatelyAssign(ok) /\ UNCHANGED <<pmVars, flowVars>>
    \/ AllocBatchSettled /\ UNCHANGED <<ghostVars, pmVars, flowVars>>
    \/ AllocWake /\ UNCHANGED <<ghostVars, pmVars, flowVars>>
    \/ MonitorCheck /\ UNCHANGED <<ghostVars, pmVars, flowVars>>
    \/ MonitorWake /\ UNCHANGED <<ghostVars, pmVars, flowVars>>
    \/ CeilingElapses /\ UNCHANGED <<ghostVars, pmVars, flowVars>>
    \/ ReturnResults /\ UNCHANGED <<ghostVars, pmVars, flowVars>>

SpecTwoPhase == Init /\ [][NextTwoPhase]_vars

\* -------------------------------------------------------------------
\* The allocator alone (executePrepareMode awaits nothing else), run on a list
\* of maxAttempts + 1 accounts against a route source that delivers: every
\* getProxyFromSource call resolves with at least one candidate, and at least
\* one candidate of every batch passes testProxyIP. With such a source the loop
\* never backs off (lines 225, 262, 271), so no timer is part of these runs.
\* -------------------------------------------------------------------
LiveList == [i \in 1..(maxAttempts + 1) |-> i]

\* the last candidate of a batch passes when no earlier one did
DeliveringValidation(ok) ==
    /\ (pending = 1 /\ batchValidated = 0) => ok
    /\ ValidateAndImmediatelyAssign(ok)

\* the steps the event loop runs once the awaited promise or timer settles
AllocatorStep ==
    \/ AllocLoop
    \/ \E k \in 1..(waitingAccounts + MaxExtra) : AllocFetchReturn(k) /\ UNCHANGED ghostVars
    \/ \E ok \in BOOLEAN : DeliveringValidation(ok)
    \/ AllocBatchSettled /\ UNCHANGED ghostVars
    \/ PrepareModeReturn /\ UNCHANGED ghostVars

NextLive ==
    \/ ExecutePrepareMode(LiveList) /\ UNCHANGED <<pmVars, flowVars>>
    \/ AllocLoop /\ UNCHANGED <<pmVars, flowVars>>
    \/ \E k \in 1..(waitingAccounts + MaxExtra) : AllocFetchReturn(k) /\ UNCHANGED <<ghostVars, pmVars, flowVars>>
    \/ \E ok \in BOOLEAN : DeliveringValidation(ok) /\ UNCHANGED <<pmVars, flowVars>>
    \/ AllocBatchSettled /\ UNCHANGED <<ghostVars, pmVars, flowVars>>
    \/ PrepareModeReturn /\ UNCHANGED <<ghostVars, pmVars, flowVars>>

\* every await of the allocator settles: the source answers, the tests finish,
\* the timers fire, and the event loop then runs the continuation
SpecLive == Init /\ [][NextLive]_vars /\ WF_vars(AllocatorStep /\ UNCHANGED <<pmVars, flowVars>>)

\* ===================================================================
\* IndependentProxyManager (multi-proxy-manager.js), one instance per account
\* ===================================================================

\* a route object created now: it is none of the objects in use
NewRoute(cur) == (cur % NumRouteIds) + 1

\* switchProxy, line 98: the bound test at the entry of every call
IndSwitchExhaustedOffByOne(sc) == sc > maxSwitchAttempts
IndSwitchExhausted(sc) == sc >= maxSwitchAttempts

\* switchProxy, lines 96-112: the synchronous head of a call (top-level or
\* recursive): give up at the bound, else count the attempt and request a candidate
IndEnter(a) ==
    IF IndSwitchExhausted(switchCount[a])
    THEN /\ swpc' = [swpc EXCEPT ![a] = "ret"]
         /\ swRet' = [swRet EXCEPT ![a] = NoProxy]
         /\ swFetched' = [swFetched EXCEPT ![a] = IF swpc[a] = "idle" THEN FALSE ELSE @]
         /\ UNCHANGED <<switchCount, currentProxy>>
    ELSE /\ switchCount' = [switchCount EXCEPT ![a] = @ + 1]
         /\ swpc' = [swpc EXCEPT ![a] = "acquire"]
         /\ swFetched' = [swFetched EXCEPT ![a] = TRUE]
         /\ UNCHANGED <<swRet, currentProxy>>

\* switchProxy, lines 141-146 and 160-165: after a failed attempt, recurse while
\* the bound is not reached, else return null
IndRetryOrGiveUp(a) ==
    IF switchCount[a] < maxSwitchAttempts
    THEN IndEnter(a)
    ELSE /\ swpc' = [swpc EXCEPT ![a] = "ret"]
         /\ swRet' = [swRet EXCEPT ![a] = NoProxy]
         /\ UNCHANGED <<switchCount, currentProxy, swFetched>>

\* switchProxy, lines 112-122 and 149-157: getProxyFromSource(type, 1) settled: one
\* candidate, the vendor's empty-list error (a 5 s pause follows), or another error
IndAcquireReturn(a, res) ==
    /\ swpc[a] = "acquire"
    /\ CASE res = "proxy" ->
              /\ swpc' = [swpc EXCEPT ![a] = "test"]
              /\ UNCHANGED <<switchCount, currentProxy, swRet, swFetched>>
         [] res = "emptyList" ->
              /\ swpc' = [swpc EXCEPT ![a] = "sleep"]
              /\ UNCHANGED <<switchCount, currentProxy, swRet, swFetched>>
         [] OTHER -> IndRetryOrGiveUp(a)

\* switchProxy, lines 156-165: the 5 s pause is over
IndSleepDone(a) ==
    /\ swpc[a] = "sleep"
    /\ IndRetryOrGiveUp(a)

\* switchProxy, lines 132-135: the validated candidate becomes this.currentProxy
InstalledRouteKept(cur, proxy) == cur
InstalledRoute(cur, proxy) == proxy

\* switchProxy, line 129: this.resetSwitchCount() after a candidate passed
SwitchCountAfterPassKept(sc) == sc
SwitchCountAfterPass(sc) == 0

\* switchProxy, lines 122-147: testProxyIP settled
IndTestReturn(a, ok) ==
    /\ swpc[a] = "test"
    /\ IF ok
       THEN /\ switchCount' = [switchCount EXCEPT ![a] = SwitchCountAfterPass(@)]
            /\ currentProxy' = [currentProxy EXCEPT ![a] = InstalledRoute(@, NewRoute(@))]
            /\ swRet' = [swRet EXCEPT ![a] = NewRoute(currentProxy[a])]
            /\ swpc' = [swpc EXCEPT ![a] = "ret"]
            /\ UNCHANGED swFetched
       ELSE IndRetryOrGiveUp(a)

\* resetSwitchCount, lines 172-174
IndResetSwitchCount(a) ==
    /\ switchCount' = [switchCount EXCEPT ![a] = 0]
    /\ UNCHANGED <<currentProxy, swpc, swRet, swFetched>>

\* setCurrentProxy, lines 195-198
IndSetCurrentProxy(a, proxy) ==
    /\ currentProxy' = [currentProxy EXCEPT ![a] = proxy]
    /\ switchCount' = [switchCount EXCEPT ![a] = 0]
    /\ UNCHANGED <<swpc, swRet, swFetched>>

\* a caller outside the flows calls switchProxy()
IndCallSwitchProxy(a) ==
    /\ swpc[a] = "idle"
    /\ IndEnter(a)

\* that caller's await received the returned value
IndCallReturned(a) ==
    /\ swpc[a] = "ret"
    /\ swpc' = [swpc EXCEPT ![a] = "idle"]
    /\ UNCHANGED <<switchCount, currentProxy, swRet, swFetched>>

\* ===================================================================
\* ProxyManager (proxy-manager.js), the global singleton
\* ===================================================================

\* switchProxy, line 114: the bound test at the entry of every call
GlobalSwitchExhaustedOffByOne(sc) == sc > maxSwitchAttempts
GlobalSwitchExhausted(sc) == sc >= maxSwitchAttempts

\* switchProxy, lines 112-132: the synchronous head of a call
GlobalEnter(c) ==
    IF GlobalSwitchExhausted(gSwitchCount)
    THEN /\ gpc' = [gpc EXCEPT ![c] = "ret"]
         /\ gRet' = [gRet EXCEPT ![c] = NoProxy]
         /\ gFetched' = [gFetched EXCEPT ![c] = IF gpc[c] = "idle" THEN FALSE ELSE @]
         /\ UNCHANGED <<gSwitchCount, gProxyType, gLastRoute>>
    ELSE /\ gSwitchCount' = gSwitchCount + 1
         /\ gpc' = [gpc EXCEPT ![c] = "acquire"]
         /\ gFetched' = [gFetched EXCEPT ![c] = TRUE]
         /\ UNCHANGED <<gRet, gProxyType, gLastRoute>>

\* switchProxy, lines 132-135 and 152-160: getProxyFromSource settled; a rejection
\* recurses without a test of its own
GlobalAcquireReturn(c, ok) ==
    /\ gpc[c] = "acquire"
    /\ IF ok
       THEN /\ gpc' = [gpc EXCEPT ![c] = "test"]
            /\ UNCHANGED <<gSwitchCount, gProxyType, gRet, gLastRoute, gFetched>>
       ELSE GlobalEnter(c)

\* switchProxy, lines 135-150: testProxyIP settled
GlobalTestReturn(c, ok) ==
    /\ gpc[c] = "test"
    /\ IF ok
       THEN /\ gSwitchCount' = 0
            /\ gLastRoute' = NewRoute(gLastRoute)
            /\ gRet' = [gRet EXCEPT ![c] = NewRoute(gLastRoute)]
            /\ gpc' = [gpc EXCEPT ![c] = "ret"]
            /\ UNCHANGED <<gProxyType, gFetched>>
       ELSE GlobalEnter(c)

\* resetSwitchCount, lines 166-168 (resetProxySwitchCount, 216-218)
GlobalResetSwitchCount ==
    /\ gSwitchCount' = 0
    /\ UNCHANGED <<gProxyType, gpc, gRet, gLastRoute, gFetched>>

\* setProxyType, lines 19-22
GlobalSetProxyType(proxyType) ==
    /\ gProxyType' = proxyType
    /\ gSwitchCount' = 0
    /\ UNCHANGED <<gpc, gRet, gLastRoute, gFetched>>

\* a caller outside the flows calls switchProxy(accountInfo), lines 201-203
GlobalCallSwitchProxy(c) ==
    /\ gpc[c] = "idle"
    /\ GlobalEnter(c)

\* that caller's await received the returned value
GlobalCallReturned(c) ==
    /\ gpc[c] = "ret"
    /\ gpc' = [gpc EXCEPT ![c] = "idle"]
    /\ UNCHANGED <<gSwitchCount, gProxyType, gRet, gLastRoute, gFetched>>

\* ---- the managers under arbitrary call sequences: specification SpecPM ----
\* the account whose IndependentProxyManager the call sequences exercise
HarnessAccount == 1

InitPM ==
    /\ InitExecutor
    /\ InitManagers
    /\ InitFlow
    /\ harness \in {"global", "independent"}
    /\ actor = 0
    /\ netError = NullError
    /\ netAnswer = NotAsked
    /\ taskAt = [a \in Accounts |-> "none"]
    /\ lastCall = "none"
    /\ multi = MultiIdle
    /\ machines = NoMachines
    /\ callEntry = 0
    /\ callFetches = 0
    /\ callPassed = FALSE

NextPM ==
    \/ harness = "independent" /\ IndCallSwitchProxy(HarnessAccount)
          /\ lastCall' = "switchProxy"
          /\ UNCHANGED <<execVars, gVars, harness, multi, machines, callVars, actor, netVars, taskAt, flowVars>>
    \/ \E res \in {"proxy", "emptyList", "error"} : IndAcquireReturn(HarnessAccount, res)
          /\ lastCall' = "switchProxy"
          /\ UNCHANGED <<execVars, gVars, harness, multi, machines, callVars, actor, netVars, taskAt, flowVars>>
    \/ IndSleepDone(HarnessAccount) /\ lastCall' = "switchProxy"
          /\ UNCHANGED <<execVars, gVars, harness, multi, machines, callVars, actor, netVars, taskAt, flowVars>>
    \/ \E ok \in BOOLEAN : IndTestReturn(HarnessAccount, ok)
          /\ lastCall' = "switchProxy"
          /\ UNCHANGED <<execVars, gVars, harness, multi, machines, callVars, actor, netVars, taskAt, flowVars>>
    \/ IndCallReturned(HarnessAccount) /\ lastCall' = "switchProxy"
          /\ UNCHANGED <<execVars, gVars, harness, multi, machines, callVars, actor, netVars, taskAt, flowVars>>
    \/ harness = "independent" /\ IndResetSwitchCount(HarnessAccount)
          /\ lastCall' = "resetSwitchCount"
          /\ UNCHANGED <<execVars, gVars, harness, multi, machines, callVars, actor, netVars, taskAt, flowVars>>
    \/ \E proxy \in RouteIds : harness = "independent"
          /\ IndSetCurrentProxy(HarnessAccount, proxy)
          /\ lastCall' = "setCurrentProxy"
          /\ UNCHANGED <<execVars, gVars, harness, multi, machines, callVars, actor, netVars, taskAt, flowVars>>
    \/ \E c \in Callers : harness = "global" /\ GlobalCallSwitchProxy(c)
          /\ lastCall' = "switchProxy"
          /\ UNCHANGED <<execVars, indVars, harness, multi, machines, callVars, actor, netVars, taskAt, flowVars>>
    \/ \E c \in Callers, ok \in BOOLEAN : GlobalAcquireReturn(c, ok)
          /\ lastCall' = "switchProxy"
          /\ UNCHANGED <<execVars, indVars, harness, multi, machines, callVars, actor, netVars, taskAt, flowVars>>
    \/ \E c \in Callers, ok \in BOOLEAN : GlobalTestReturn(c, ok)
          /\ lastCall' = "switchProxy"
          /\ UNCHANGED <<execVars, indVars, harness, multi, machines, callVars, actor, netVars, taskAt, flowVars>>
    \/ \E c \in Callers : GlobalCallReturned(c)
          /\ lastCall' = "switchProxy"
          /\ UNCHANGED <<execVars, indVars, harness, multi, machines, callVars, actor, netVars, taskAt, flowVars>>
    \/ harness = "global" /\ GlobalResetSwitchCount
          /\ lastCall' = "resetSwitchCount"
          /\ UNCHANGED <<execVars, indVars, harness, multi, machines, callVars, actor, netVars, taskAt, flowVars>>
    \/ \E proxyType \in {1, 2} : harness = "global" /\ GlobalSetProxyType(proxyType)
          /\ lastCall' = "setProxyType"
          /\ UNCHANGED <<execVars, indVars, harness, multi, machines, callVars, actor, netVars, taskAt, flowVars>>

SpecPM == InitPM /\ [][NextPM]_vars

\* getStatus, part_002:180-189 and proxy-manager.js:173-180
CanSwitchInclusive(sc) == sc <= maxSwitchAttempts
CanSwitch(sc) == sc < maxSwitchAttempts
IndGetStatus(a) ==
    [switchCount |-> switchCount[a], maxSwitchAttempts |-> maxSwitchAttempts,
     canSwitch |-> CanSwitch(switchCount[a]), currentProxy |-> currentProxy[a]]
GlobalGetStatus ==
    [currentProxyType |-> gProxyType, switchCount |-> gSwitchCount,
     maxSwitchAttempts |-> maxSwitchAttempts, canSwitch |-> CanSwitch(gSwitchCount)]

\* C30: in both managers getStatus().canSwitch is true exactly when switchCount
\* is below maxSwitchAttempts; the status read after resetSwitchCount() has
\* switchCount 0 and canSwitch true whatever switchCount was before; and the
\* counter only ever grows by one, so the next attempt after a reset makes it 1.
C30_StatusAfterReset ==
    /\ [](/\ IndGetStatus(HarnessAccount).switchCount = switchCount[HarnessAccount]
          /\ IndGetStatus(HarnessAccount).canSwitch
                <=> switchCount[HarnessAccount] < maxSwitchAttempts
          /\ GlobalGetStatus.switchCount = gSwitchCount
          /\ GlobalGetStatus.canSwitch <=> gSwitchCount < maxSwitchAttempts)
    /\ [][/\ (lastCall' = "resetSwitchCount" /\ harness = "independent") =>
                /\ IndGetStatus(HarnessAccount)'.switchCount = 0
                /\ IndGetStatus(HarnessAccount)'.canSwitch
          /\ (lastCall' = "resetSwitchCount" /\ harness = "global") =>
                /\ GlobalGetStatus'.switchCount = 0
                /\ GlobalGetStatus'.canSwitch
          /\ switchCount'[HarnessAccount] > switchCount[HarnessAccount] =>
                switchCount'[HarnessAccount] = switchCount[HarnessAccount] + 1
          /\ gSwitchCount' > gSwitchCount => gSwitchCount' = gSwitchCount + 1]_vars

\* resetSwitchCount() was called on a manager whose last switchProxy call gave
\* up at the bound (its null has not been consumed yet): the counter is 0 again
C30_Witness ==
    /\ lastCall = "resetSwitchCount"
    /\ harness = "independent"
    /\ swpc[HarnessAccount] = "ret"
    /\ swRet[HarnessAccount] = NoProxy
    /\ ~swFetched[HarnessAccount]
    /\ switchCount[HarnessAccount] = 0
    /\ IndGetStatus(HarnessAccount).canSwitch

\* ===================================================================
\* MultiAccountExecutor.executeMultipleAccounts (multi-account-executor.js):
\* specification SpecMulti
\* ===================================================================

\* the positions of proxyList
ListProxies(m) == 1..m

\* line 387: proxyList[index % proxyList.length], for the account at position
\* i of accountList (positions counted from 1, as the list positions here)
PrimaryIndex(i, m) == ((i - 1) % m) + 1

PositionOf(list, a) == CHOOSE i \in DOMAIN list : list[i] = a

\* lines 401-404: the next position the backup loop tries after position j (0:
\* from the start), skipping the primary one; 0 when the loop is over
NextBackup(j, primary, m) ==
    LET rest == {k \in ListProxies(m) : k > j /\ k # primary}
    IN IF rest = {} THEN 0 ELSE CHOOSE k \in rest : \A l \in rest : k <= l

\* lines 358-390: the call; it throws on an empty list, else every account's
\* assignment task starts the test of its primary proxy
ExecuteMultipleAccounts(list, m) ==
    /\ multi.phase \in {"idle", "returned", "threw"}
    /\ IF Len(list) = 0 \/ m = 0
       THEN multi' = [MultiIdle EXCEPT !.phase = "threw", !.list = list, !.m = m]
       ELSE multi' = [phase |-> "assigning", list |-> list, m |-> m,
                      task |-> [a \in Accounts |->
                                  IF a \in Range(list)
                                  THEN [pc |-> "testing",
                                        idx |-> PrimaryIndex(PositionOf(list, a), m)]
                                  ELSE [pc |-> "none", idx |-> 0]]]
    /\ UNCHANGED <<execVars, indVars, gVars, harness, machines, lastCall, callVars, actor,
                   netVars, taskAt, flowVars>>

\* lines 390-417: assignAndValidateProxy settled for the account
MultiTestReturn(a, ok) ==
    /\ multi.phase = "assigning"
    /\ multi.task[a].pc = "testing"
    /\ LET primary == PrimaryIndex(PositionOf(multi.list, a), multi.m)
           cur == multi.task[a].idx
           next == NextBackup(IF cur = primary THEN 0 ELSE cur, primary, multi.m)
       IN multi' = [multi EXCEPT !.task[a] =
                       IF ok THEN [pc |-> "assigned", idx |-> cur]
                       ELSE IF next = 0 THEN [pc |-> "failed", idx |-> 0]
                       ELSE [pc |-> "testing", idx |-> next]]
    /\ UNCHANGED <<execVars, indVars, gVars, harness, machines, lastCall, callVars, actor,
                   netVars, taskAt, flowVars>>

\* lines 425-455: all assignment tasks settled; the call throws when no account
\* got a proxy, else it starts the purchase task of every account that did
MultiAssignmentsSettled ==
    /\ multi.phase = "assigning"
    /\ \A a \in Range(multi.list) : multi.task[a].pc \in {"assigned", "failed"}
    /\ IF \A a \in Range(multi.list) : multi.task[a].pc = "failed"
       THEN multi' = [multi EXCEPT !.phase = "threw"]
       ELSE multi' = [multi EXCEPT
                        !.phase = "executing",
                        !.task = [a \in Accounts |->
                                    IF multi.task[a].pc = "assigned"
                                    THEN [multi.task[a] EXCEPT !.pc = "running"]
                                    ELSE multi.task[a]]]
    /\ UNCHANGED <<execVars, indVars, gVars, harness, machines, lastCall, callVars, actor,
                   netVars, taskAt, flowVars>>

\* executeSingleAccount of the account settled
MultiTaskSettled(a) ==
    /\ multi.phase = "executing"
    /\ multi.task[a].pc = "running"
    /\ multi' = [multi EXCEPT !.task[a].pc = "settled"]
    /\ UNCHANGED <<execVars, indVars, gVars, harness, machines, lastCall, callVars, actor,
                   netVars, taskAt, flowVars>>

\* lines 457-482: all purchase tasks settled, the call returns
MultiReturn ==
    /\ multi.phase = "executing"
    /\ \A a \in Accounts : multi.task[a].pc # "running"
    /\ multi' = [multi EXCEPT !.phase = "returned"]
    /\ UNCHANGED <<execVars, indVars, gVars, harness, machines, lastCall, callVars, actor,
                   netVars, taskAt, flowVars>>

NextMulti ==
    \/ \E list \in InjectiveSeqs(Accounts), m \in 0..NumListProxies :
          ExecuteMultipleAccounts(list, m)
    \/ \E a \in Accounts, ok \in BOOLEAN : MultiTestReturn(a, ok)
    \/ MultiAssignmentsSettled
    \/ \E a \in Accounts : MultiTaskSettled(a)
    \/ MultiReturn

SpecMulti == Init /\ [][NextMulti]_vars

\* C34: no two accounts whose purchase tasks were started in one
\* executeMultipleAccounts call hold the same proxy of proxyList.
C34_MultiProxiesOneToOne ==
    \A a \in Accounts : \A b \in Accounts \ {a} :
        (multi.task[a].pc \in {"running", "settled"}
         /\ multi.task[b].pc \in {"running", "settled"})
            => multi.task[a].idx # multi.task[b].idx

\* -------------------------------------------------------------------
\* One top-level switchProxy call at a time on a manager, entered at any value
\* of switchCount, every await of the call settling: specification SpecSwitch
\* -------------------------------------------------------------------

\* the caller of the singleton in this specification
SwitchCaller == 1

SwitchPc == IF harness = "independent" THEN swpc[HarnessAccount] ELSE gpc[SwitchCaller]
SwitchRet == IF harness = "independent" THEN swRet[HarnessAccount] ELSE gRet[SwitchCaller]
SwitchCountOf == IF harness = "independent" THEN switchCount[HarnessAccount] ELSE gSwitchCount

\* the recursive call of the catch and else branches requests a candidate in
\* the synchronous block that follows the await
FetchesAfter(n) ==
    IF (IF harness = "independent" THEN swpc'[HarnessAccount] ELSE gpc'[SwitchCaller]) = "acquire"
    THEN n + 1 ELSE n

\* test-counter-reset.js, lines 10 and 13: the counter is assigned from outside
\* between two calls
SwitchSetCount(n) ==
    /\ SwitchPc = "idle"
    /\ IF harness = "independent"
       THEN /\ switchCount' = [switchCount EXCEPT ![HarnessAccount] = n]
            /\ UNCHANGED <<currentProxy, swpc, swRet, swFetched, gVars>>
       ELSE /\ gSwitchCount' = n
            /\ UNCHANGED <<gProxyType, gpc, gRet, gLastRoute, gFetched, indVars>>
    /\ UNCHANGED <<execVars, harness, multi, machines, lastCall, callVars, actor, netVars, taskAt, flowVars>>

\* the top-level call
SwitchCall ==
    /\ IF harness = "independent"
       THEN IndCallSwitchProxy(HarnessAccount) /\ UNCHANGED gVars
       ELSE GlobalCallSwitchProxy(SwitchCaller) /\ UNCHANGED indVars
    /\ callEntry' = SwitchCountOf
    /\ callFetches' = FetchesAfter(0)
    /\ callPassed' = FALSE
    /\ UNCHANGED <<execVars, harness, multi, machines, lastCall, actor, netVars, taskAt, flowVars>>

\* getProxyFromSource settled
SwitchAcquireReturn(res) ==
    /\ IF harness = "independent"
       THEN IndAcquireReturn(HarnessAccount, res) /\ UNCHANGED gVars
       ELSE /\ res \in {"proxy", "error"}
            /\ GlobalAcquireReturn(SwitchCaller, res = "proxy")
            /\ UNCHANGED indVars
    /\ callFetches' = FetchesAfter(callFetches)
    /\ UNCHANGED <<execVars, harness, multi, machines, lastCall, callEntry, callPassed, actor, netVars,
                   taskAt, flowVars>>

\* the 5 s pause of the independent manager is over
SwitchSleepDone ==
    /\ harness = "independent"
    /\ IndSleepDone(HarnessAccount)
    /\ callFetches' = FetchesAfter(callFetches)
    /\ UNCHANGED <<execVars, gVars, harness, multi, machines, lastCall, callEntry, callPassed, actor,
                   netVars, taskAt, flowVars>>

\* testProxyIP settled
SwitchTestReturn(ok) ==
    /\ IF harness = "independent"
       THEN IndTestReturn(HarnessAccount, ok) /\ UNCHANGED gVars
       ELSE GlobalTestReturn(SwitchCaller, ok) /\ UNCHANGED indVars
    /\ callFetches' = FetchesAfter(callFetches)
    /\ callPassed' = ok
    /\ UNCHANGED <<execVars, harness, multi, machines, lastCall, callEntry, actor, netVars, taskAt, flowVars>>

\* the caller's await received the value
SwitchReturned ==
    /\ IF harness = "independent"
       THEN IndCallReturned(HarnessAccount) /\ UNCHANGED gVars
       ELSE GlobalCallReturned(SwitchCaller) /\ UNCHANGED indVars
    /\ UNCHANGED <<execVars, harness, multi, machines, lastCall, callVars, actor, netVars, taskAt, flowVars>>

\* what the event loop runs once an await of the call settled
SwitchContinues ==
    \/ \E res \in {"proxy", "emptyList", "error"} : SwitchAcquireReturn(res)
    \/ SwitchSleepDone
    \/ \E ok \in BOOLEAN : SwitchTestReturn(ok)

NextSwitch ==
    \/ \E n \in 0..maxSwitchAttempts : SwitchSetCount(n)
    \/ SwitchCall
    \/ \E res \in {"proxy", "emptyList", "error"} : SwitchAcquireReturn(res)
    \/ SwitchSleepDone
    \/ \E ok \in BOOLEAN : SwitchTestReturn(ok)
    \/ SwitchReturned

\* getProxyFromSource and testProxyIP are requests with a timeout and the pause
\* is a timer: each settles, and the continuation then runs
SpecSwitch == InitPM /\ [][NextSwitch]_vars /\ WF_vars(SwitchContinues)

\* C31: a top-level switchProxy call ends; it requests at most
\* maxSwitchAttempts minus the entry value of switchCount candidates; it returns
\* null only with switchCount at maxSwitchAttempts and no candidate of the call
\* having passed; and once a candidate passes, the call returns that candidate
\* without requesting another.
C31_SwitchCallBoundedAndEnds ==
    /\ [](/\ callFetches <= maxSwitchAttempts - callEntry
          /\ (SwitchPc = "ret" /\ SwitchRet = NoProxy) =>
                (SwitchCountOf = maxSwitchAttempts /\ ~callPassed)
          /\ callPassed => (SwitchPc \in {"ret", "idle"} /\ SwitchRet # NoProxy))
    /\ [][(callPassed' /\ ~callPassed) => callFetches' = callFetches]_vars
    /\ (SwitchPc \in {"acquire", "test", "sleep"}) ~> (SwitchPc = "ret")

\* a call entered at 18 made its two attempts, both failed, and returned null
C31_Witness ==
    /\ harness = "global"
    /\ SwitchPc = "ret"
    /\ SwitchRet = NoProxy
    /\ callEntry = maxSwitchAttempts - 2
    /\ callFetches = 2
    /\ ~callPassed

\* C8: in both managers switchCount stays within 0..maxSwitchAttempts under every
\* sequence of switchProxy, resetSwitchCount, setProxyType and setCurrentProxy calls
\* and every mix of acquisition errors, validation failures and successes.
C8_SwitchCountBounded ==
    /\ \A a \in Accounts : 0 <= switchCount[a] /\ switchCount[a] <= maxSwitchAttempts
    /\ 0 <= gSwitchCount /\ gSwitchCount <= maxSwitchAttempts

C8_Witness ==
    /\ harness = "independent"
    /\ switchCount[HarnessAccount] = maxSwitchAttempts
    /\ swpc[HarnessAccount] = "ret"
    /\ swRet[HarnessAccount] = NoProxy

\* C21: a switchProxy call made when switchCount has reached maxSwitchAttempts
\* returns null at once: it requests no candidate (and so tests none) and leaves
\* switchCount and the current route as they were; in both managers.
C21_ExhaustedSwitchReturnsNull ==
    [][/\ \A a \in Accounts :
            (swpc[a] = "idle" /\ swpc'[a] # "idle"
             /\ switchCount[a] >= maxSwitchAttempts) =>
                /\ swpc'[a] = "ret"
                /\ swRet'[a] = NoProxy
                /\ ~swFetched'[a]
                /\ switchCount'[a] = switchCount[a]
                /\ currentProxy'[a] = currentProxy[a]
       /\ \A c \in Callers :
            (gpc[c] = "idle" /\ gpc'[c] # "idle"
             /\ gSwitchCount >= maxSwitchAttempts) =>
                /\ gpc'[c] = "ret"
                /\ gRet'[c] = NoProxy
                /\ ~gFetched'[c]
                /\ gSwitchCount' = gSwitchCount
                /\ gLastRoute' = gLastRoute]_vars

C21_Witness ==
    /\ swpc[HarnessAccount] = "ret"
    /\ ~swFetched[HarnessAccount]
    /\ swRet[HarnessAccount] = NoProxy
    /\ switchCount[HarnessAccount] = maxSwitchAttempts
    /\ currentProxy[HarnessAccount] # NoProxy

\* C22: IndependentProxyManager.switchProxy returns a route only from the
\* continuation of a successful testProxyIP, with switchCount reset to 0 and the
\* returned route installed as the current one; every other step of a call,
\* and so every call that returns null, leaves the current route as it was.
C22_ReturnedRouteIsCurrent ==
    [][\A a \in Accounts :
          swpc'[a] # swpc[a] =>
             IF swpc'[a] = "ret" /\ swRet'[a] # NoProxy
             THEN /\ swpc[a] = "test"
                  /\ swFetched[a]
                  /\ switchCount'[a] = 0
                  /\ currentProxy'[a] = swRet'[a]
             ELSE currentProxy'[a] = currentProxy[a]]_vars

C22_Witness ==
    /\ swpc[HarnessAccount] = "ret"
    /\ swFetched[HarnessAccount]
    /\ swRet[HarnessAccount] # NoProxy
    /\ currentProxy[HarnessAccount] = swRet[HarnessAccount]
    /\ switchCount[HarnessAccount] = 0

\* ===================================================================
\* The purchase flow: purchase-flow.js and the executors' executeFlowWithProxyManager
\* ===================================================================

\* the account and the global-manager caller of the flow run that is followed
FlowAccount == 1
FlowCaller == 1

FlowKinds == {"dynamic", "multi", "single"}

\* what the backend (or the transport) answers to one request of a step
TicketResponses == {"ok", "notReady", "transportErr", "http5xx", "http4xx"}
SubmitResponses == {"ok", "ticketInvalid", "duplicate", "otherReject", "noMessage",
                    "transportErr", "http5xx", "http4xx"}
Responses(step) == IF step = "submit" THEN SubmitResponses ELSE TicketResponses

\* the error object a failed request leaves in the step's catch block: the HTTP
\* status (0 without a response) and whether its code or message matches one of
\* the listed patterns. A missing message makes message.includes throw a TypeError.
ErrorOf(resp) ==
    CASE resp = "transportErr" -> [status |-> 0, matches |-> TRUE]
      [] resp = "http5xx" -> [status |-> 500, matches |-> FALSE]
      [] resp = "http4xx" -> [status |-> 400, matches |-> FALSE]
      [] OTHER -> [status |-> 0, matches |-> FALSE]

\* isNetworkError
IsNetworkError(error) == error.status >= 500 \/ error.status = 0 \/ error.matches

\* one iteration of the while(true) loop of getSystemTicket, verifyTicket and
\* submitReservation: the function returns, throws NETWORK_ERROR, or loops and
\* sends the request again
StepOutcome(step, resp) ==
    CASE resp = "ok" -> "return"
      [] resp \in {"transportErr", "http5xx", "http4xx"} ->
            IF IsNetworkError(ErrorOf(resp)) THEN "throw" ELSE "loop"
      [] step = "submit" /\ resp = "ticketInvalid" -> "return"
      [] step = "submit" /\ resp = "noMessage" ->
            IF IsNetworkError(ErrorOf(resp)) THEN "throw" ELSE "loop"
      [] OTHER -> "loop"

\* the values a step function returns
NullValue == [success |-> FALSE, needRefreshTicket |-> FALSE, shouldStop |-> FALSE,
              error |-> "null"]
StepValueNoRefresh(step, resp) ==
    IF resp = "ok"
    THEN [success |-> TRUE, needRefreshTicket |-> FALSE, shouldStop |-> FALSE,
          error |-> "none"]
    ELSE [success |-> FALSE, needRefreshTicket |-> FALSE, shouldStop |-> FALSE,
          error |-> "TICKET_EXPIRED"]
StepValue(step, resp) ==
    IF resp = "ok"
    THEN [success |-> TRUE, needRefreshTicket |-> FALSE, shouldStop |-> FALSE,
          error |-> "none"]
    ELSE [success |-> FALSE, needRefreshTicket |-> TRUE, shouldStop |-> FALSE,
          error |-> "TICKET_EXPIRED"]

NoResult == [success |-> FALSE, error |-> "pending"]
Failed(reason) == [success |-> FALSE, error |-> reason]

\* the test after ticketRefreshCount++ (purchase-flow.js:521, part_000:633,
\* part_005:221)
RefreshExhaustedLate(count) == count > maxTicketRefresh
RefreshExhausted(count) == count >= maxTicketRefresh

\* the flow's position after its loop body ended in `continue`: the while
\* condition, then FETCH again or the statement after the loop
LoopHead(count) ==
    IF count < maxTicketRefresh
    THEN [pc |-> "call", step |-> "fetch", count |-> count, result |-> NoResult,
          notify |-> "none"]
    ELSE [pc |-> "done", step |-> "submit", count |-> count,
          result |-> Failed("maxRefreshExceeded"), notify |-> "none"]

\* the needRefreshTicket branch: count the refresh, fail at the bound, else continue
RefreshTicket(count) ==
    IF RefreshExhausted(count + 1)
    THEN [pc |-> "done", step |-> "submit", count |-> count + 1,
          result |-> Failed("maxRefreshReached"), notify |-> "none"]
    ELSE LoopHead(count + 1)

FlowDone(step, count, result) ==
    [pc |-> "done", step |-> step, count |-> count, result |-> result, notify |-> "none"]

\* executeFlowWithProxyManager of both executors, from the point where the step
\* wrapper returned w = {success, result, error}
ExecutorFlowContinue(kind, step, count, w) ==
    CASE step = "fetch" ->
            IF ~w.success THEN FlowDone(step, count, Failed("fetchTicketFailed"))
            ELSE [pc |-> "call", step |-> "verify", count |-> count, result |-> NoResult,
                  notify |-> "none"]
      [] step = "verify" ->
            IF ~w.success THEN FlowDone(step, count, Failed("verifyTicketFailed"))
            ELSE [pc |-> "call", step |-> "submit", count |-> count, result |-> NoResult,
                  notify |-> "none"]
      [] OTHER ->
            IF w.success
            THEN [pc |-> IF kind = "dynamic" THEN "notify" ELSE "done", step |-> step,
                  count |-> count,
                  result |-> [success |-> w.result.success, error |-> w.result.error],
                  notify |-> IF kind = "dynamic" THEN "success" ELSE "none"]
            ELSE IF kind = "dynamic" /\ w.result # NullValue /\ w.result.shouldStop
            THEN [pc |-> "notify", step |-> step, count |-> count,
                  result |-> Failed("DUPLICATE_SUBMISSION"), notify |-> "duplicate"]
            ELSE IF w.result # NullValue /\ w.result.needRefreshTicket
            THEN RefreshTicket(count)
            ELSE FlowDone(step, count,
                          Failed(IF w.error # "none" THEN w.error
                                 ELSE IF w.result # NullValue THEN w.result.error
                                 ELSE "submitFailed"))

\* executePurchaseFlow, from the point where executeWithNetworkErrorHandling
\* returned w
PurchaseFlowContinue(step, count, w) ==
    CASE step = "fetch" ->
            IF ~w.success THEN FlowDone(step, count, Failed("fetchTicketFailed"))
            ELSE [pc |-> "call", step |-> "verify", count |-> count, result |-> NoResult,
                  notify |-> "none"]
      [] step = "verify" ->
            IF ~w.success THEN FlowDone(step, count, Failed("verifyTicketFailed"))
            ELSE [pc |-> "call", step |-> "submit", count |-> count, result |-> NoResult,
                  notify |-> "none"]
      [] OTHER ->
            LET submitResult ==
                    IF w.success THEN w.result
                    ELSE [success |-> FALSE, needRefreshTicket |-> FALSE,
                          shouldStop |-> FALSE, error |-> w.error]
            IN  IF submitResult.success
                THEN FlowDone(step, count, [success |-> TRUE, error |-> "none"])
                ELSE IF submitResult.needRefreshTicket
                THEN RefreshTicket(count)
                ELSE FlowDone(step, count, Failed(submitResult.error))

FlowContinue(kind, step, count, w) ==
    IF kind = "single" THEN PurchaseFlowContinue(step, count, w)
    ELSE ExecutorFlowContinue(kind, step, count, w)

\* a SUBMIT or FETCH request goes out at the next position
IssuesCall(pc, step) == pc \in {"call", "retry"} /\ step \in {"fetch", "submit"}

\* the wrapper returned w after the answer resp and the flow moves to position
\* n; at a "call" position the next wrapper invocation sends its first request on
\* route
FlowGoto(n, w, resp, route) ==
    /\ wResult' = [success |-> w.success, error |-> w.error]
    /\ IF n.pc = "call"
       THEN /\ lastResponse' = "none"
            /\ wStepCalls' = 1
            /\ wSwitchCalls' = 0
            /\ callRoute' = route
       ELSE /\ lastResponse' = resp
            /\ UNCHANGED <<wStepCalls, wSwitchCalls, callRoute>>
    /\ fpc' = n.pc
    /\ fStep' = n.step
    /\ ticketRefreshCount' = n.count
    /\ fResult' = n.result
    /\ notified' = IF n.notify # "none" THEN n.notify ELSE notified
    /\ callAfterDuplicate' = (callAfterDuplicate \/ (duplicateSeen /\ IssuesCall(n.pc, n.step)))

\* the Error objects a step function can throw: the NETWORK_ERROR and
\* DUPLICATE_SUBMISSION markers are plain Errors without a response (status 0),
\* "transport" is a raw request error without a response, "business" carries a
\* 4xx response and no listed pattern
ThrownRaw(what) == [status |-> 400, matches |-> FALSE, message |-> "business"]
Thrown(what) ==
    CASE what = "NETWORK_ERROR" -> [status |-> 0, matches |-> TRUE, message |-> what]
      [] what = "DUPLICATE_SUBMISSION" -> [status |-> 0, matches |-> FALSE, message |-> what]
      [] what = "transport" -> [status |-> 0, matches |-> TRUE, message |-> what]
      [] OTHER -> [status |-> 400, matches |-> FALSE, message |-> "business"]

\* the catch block of the step wrappers (executeStepWithProxyManager,
\* executeWithNetworkErrorHandling) for a thrown error
WrapperCatchAlwaysSwitch(kind, error) == "switch"
WrapperCatch(kind, error) ==
    IF kind = "dynamic" /\ error.message = "DUPLICATE_SUBMISSION" THEN "duplicate"
    ELSE IF IsNetworkError(error) \/ error.message = "NETWORK_ERROR" THEN "switch"
    ELSE "fail"

\* what the wrappers return
WrapSuccess(value) == [success |-> TRUE, result |-> value, error |-> "none"]
WrapDuplicate ==
    [success |-> FALSE,
     result |-> [success |-> FALSE, needRefreshTicket |-> FALSE, shouldStop |-> TRUE,
                 error |-> "DUPLICATE_SUBMISSION"],
     error |-> "none"]
WrapFailure(error) == [success |-> FALSE, result |-> NullValue, error |-> error.message]
WrapNoRoute(kind, error) ==
    [success |-> FALSE, result |-> NullValue,
     error |-> IF kind = "single" THEN error.message ELSE "noProxyAvailable"]

\* the route the second invocation of the step sends its requests on:
\* requestFunc(newProxyInfo), or proxyManager.getCurrentProxy() after switchProxy
\* replaced currentProxy
RetryRouteStale(newProxyInfo, oldRoute) == oldRoute
RetryRoute(newProxyInfo, oldRoute) == newProxyInfo

\* a flow is started on a validated route: startSingleAccountTask creates the
\* account's manager and calls executeFlowWithProxyManager; a script calls
\* executePurchaseFlow
FlowStart(kind) ==
    /\ fpc \in {"idle", "done"}
    /\ fKind' = kind
    /\ fpc' = "call"
    /\ fStep' = "fetch"
    /\ ticketRefreshCount' = 0
    /\ fResult' = NoResult
    /\ notified' = "none"
    /\ duplicateSeen' = FALSE
    /\ callAfterDuplicate' = FALSE
    /\ ticketInvalidSeen' = 0
    /\ lastResponse' = "none"
    /\ wStepCalls' = 1
    /\ wSwitchCalls' = 0
    /\ callRoute' = 1
    /\ wResult' = [success |-> FALSE, error |-> "pending"]
    /\ IF kind = "single"
       THEN /\ currentProxyInfo' = 1
            /\ UNCHANGED indVars
       ELSE /\ currentProxyInfo' = NoProxy
            /\ switchCount' = [switchCount EXCEPT ![FlowAccount] = 0]
            /\ currentProxy' = [currentProxy EXCEPT ![FlowAccount] = 1]
            /\ swpc' = [swpc EXCEPT ![FlowAccount] = "idle"]
            /\ swRet' = [swRet EXCEPT ![FlowAccount] = NoProxy]
            /\ UNCHANGED swFetched
    /\ UNCHANGED <<execVars, gVars, harnessVars>>

\* the request of the current step settled with resp: the step function loops,
\* returns or throws, and the wrapper and the flow run on to their next await
FlowStepResponse(resp) ==
    /\ fpc \in {"call", "retry"}
    /\ resp \in Responses(fStep)
    /\ LET out == StepOutcome(fStep, resp)
           dup == fStep = "submit" /\ resp = "duplicate"
           error == Thrown("NETWORK_ERROR")
           handling == WrapperCatch(fKind, error)
           route == IF fKind = "single" THEN currentProxyInfo ELSE currentProxy[FlowAccount]
       IN  /\ duplicateSeen' = (duplicateSeen \/ dup)
           /\ ticketInvalidSeen' = IF fStep = "submit" /\ resp = "ticketInvalid"
                                   THEN ticketInvalidSeen + 1 ELSE ticketInvalidSeen
           /\ CASE out = "loop" ->
                    /\ callAfterDuplicate' =
                          (callAfterDuplicate \/ ((duplicateSeen \/ dup) /\ IssuesCall(fpc, fStep)))
                    /\ lastResponse' = resp
                    /\ UNCHANGED <<fpc, fStep, ticketRefreshCount, fResult, notified,
                                   currentProxyInfo, indVars, gVars, wStepCalls,
                                   wSwitchCalls, callRoute, wResult>>
                [] out = "return" ->
                    /\ currentProxyInfo' = IF fKind = "single" /\ fpc = "retry"
                                           THEN gRet[FlowCaller] ELSE currentProxyInfo
                    /\ FlowGoto(FlowContinue(fKind, fStep, ticketRefreshCount,
                                             WrapSuccess(StepValue(fStep, resp))),
                                WrapSuccess(StepValue(fStep, resp)), resp,
                                IF fKind = "single" /\ fpc = "retry"
                                THEN gRet[FlowCaller] ELSE route)
                    /\ gSwitchCount' = IF resp = "ok" THEN 0 ELSE gSwitchCount
                    /\ UNCHANGED <<indVars, gProxyType, gpc, gRet, gLastRoute, gFetched>>
                [] out = "throw" /\ fpc = "call" /\ handling = "switch" ->
                    /\ fpc' = "switch"
                    /\ lastResponse' = resp
                    /\ wSwitchCalls' = wSwitchCalls + 1
                    /\ UNCHANGED <<fStep, ticketRefreshCount, fResult, notified,
                                   callAfterDuplicate, currentProxyInfo, wStepCalls,
                                   callRoute, wResult>>
                    /\ IF fKind = "single"
                       THEN GlobalEnter(FlowCaller) /\ UNCHANGED indVars
                       ELSE IndEnter(FlowAccount) /\ UNCHANGED gVars
                [] out = "throw" /\ fpc = "call" /\ handling = "duplicate" ->
                    /\ FlowGoto(FlowContinue(fKind, fStep, ticketRefreshCount, WrapDuplicate),
                                WrapDuplicate, resp, route)
                    /\ UNCHANGED <<currentProxyInfo, indVars, gVars>>
                [] OTHER ->
                    /\ FlowGoto(FlowContinue(fKind, fStep, ticketRefreshCount,
                                             WrapFailure(error)),
                                WrapFailure(error), resp, route)
                    /\ UNCHANGED <<currentProxyInfo, indVars, gVars>>
    /\ UNCHANGED <<fKind, execVars, harnessVars>>

\* the wrapper's await of switchProxy() received its value: retry the step on
\* the new route, or give the step up
FlowSwitchReturned ==
    /\ fpc = "switch"
    /\ IF fKind = "single" THEN gpc[FlowCaller] = "ret" ELSE swpc[FlowAccount] = "ret"
    /\ LET newProxyInfo == IF fKind = "single" THEN gRet[FlowCaller] ELSE swRet[FlowAccount]
           noRoute == WrapNoRoute(fKind, Thrown("NETWORK_ERROR"))
       IN  IF newProxyInfo # NoProxy
           THEN /\ fpc' = "retry"
                /\ callAfterDuplicate' =
                      (callAfterDuplicate \/ (duplicateSeen /\ IssuesCall("retry", fStep)))
                /\ lastResponse' = "none"
                /\ wStepCalls' = wStepCalls + 1
                /\ callRoute' = RetryRoute(newProxyInfo, callRoute)
                /\ UNCHANGED <<fStep, ticketRefreshCount, fResult, notified, wSwitchCalls,
                               wResult>>
           ELSE FlowGoto(FlowContinue(fKind, fStep, ticketRefreshCount, noRoute),
                         noRoute, lastResponse, callRoute)
    /\ IF fKind = "single"
       THEN /\ gpc' = [gpc EXCEPT ![FlowCaller] = "idle"]
            /\ UNCHANGED <<gSwitchCount, gProxyType, gRet, gLastRoute, gFetched, indVars>>
       ELSE /\ swpc' = [swpc EXCEPT ![FlowAccount] = "idle"]
            /\ UNCHANGED <<switchCount, currentProxy, swRet, swFetched, gVars>>
    /\ UNCHANGED <<fKind, currentProxyInfo, duplicateSeen, ticketInvalidSeen, execVars,
                   harnessVars>>

\* the push request of sendSuccessNotification / sendDuplicateNotification
\* settled; the flow returns
FlowNotificationSettled ==
    /\ fpc = "notify"
    /\ fpc' = "done"
    /\ UNCHANGED <<fKind, fStep, ticketRefreshCount, currentProxyInfo, fResult, notified,
                   duplicateSeen, callAfterDuplicate, ticketInvalidSeen, wrapVars,
                   execVars, pmVars>>

NextFlow ==
    \/ \E kind \in FlowKinds : FlowStart(kind)
    \/ \E resp \in SubmitResponses \cup TicketResponses : FlowStepResponse(resp)
    \/ FlowSwitchReturned
    \/ FlowNotificationSettled
    \/ \E res \in {"proxy", "emptyList", "error"} : IndAcquireReturn(FlowAccount, res)
          /\ UNCHANGED <<execVars, gVars, harnessVars, flowVars>>
    \/ IndSleepDone(FlowAccount) /\ UNCHANGED <<execVars, gVars, harnessVars, flowVars>>
    \/ \E ok \in BOOLEAN : IndTestReturn(FlowAccount, ok)
          /\ UNCHANGED <<execVars, gVars, harnessVars, flowVars>>
    \/ \E ok \in BOOLEAN : GlobalAcquireReturn(FlowCaller, ok)
          /\ UNCHANGED <<execVars, indVars, harnessVars, flowVars>>
    \/ \E ok \in BOOLEAN : GlobalTestReturn(FlowCaller, ok)
          /\ UNCHANGED <<execVars, indVars, harnessVars, flowVars>>

SpecFlow == Init /\ [][NextFlow]_vars

\* ---- the step wrappers called with an arbitrary step function:
\* ---- specification SpecWrap
\* what one invocation of an arbitrary step function does: return a value or
\* throw one of the Error objects of Thrown
StubOutcomes == {"return", "NETWORK_ERROR", "DUPLICATE_SUBMISSION", "transport", "business"}

\* a wrapper is invoked for the account, with a manager created for the call
\* (fresh) or the one earlier invocations used
WrapperCall(kind, fresh) ==
    /\ fpc \in {"idle", "done"}
    /\ fKind' = kind
    /\ fpc' = "call"
    /\ lastResponse' = "none"
    /\ wStepCalls' = 1
    /\ wSwitchCalls' = 0
    /\ IF kind = "single"
       THEN /\ currentProxyInfo' = 1
            /\ callRoute' = 1
            /\ UNCHANGED indVars
       ELSE IF fresh \/ currentProxy[FlowAccount] = NoProxy
       THEN /\ switchCount' = [switchCount EXCEPT ![FlowAccount] = 0]
            /\ currentProxy' = [currentProxy EXCEPT ![FlowAccount] = 1]
            /\ callRoute' = 1
            /\ UNCHANGED <<currentProxyInfo, swpc, swRet, swFetched>>
       ELSE /\ callRoute' = currentProxy[FlowAccount]
            /\ UNCHANGED <<currentProxyInfo, indVars>>
    /\ UNCHANGED <<fStep, ticketRefreshCount, fResult, notified, duplicateSeen,
                   callAfterDuplicate, ticketInvalidSeen, wResult, execVars, gVars,
                   harnessVars>>

\* the step invocation in flight settled: the wrapper returns, or enters
\* switchProxy
StubStepSettled(outcome) ==
    /\ fpc \in {"call", "retry"}
    /\ lastResponse' = outcome
    /\ LET error == Thrown(outcome)
           handling == WrapperCatch(fKind, error)
       IN  IF outcome # "return" /\ fpc = "call" /\ handling = "switch"
           THEN /\ fpc' = "switch"
                /\ wSwitchCalls' = wSwitchCalls + 1
                /\ UNCHANGED wResult
                /\ IF fKind = "single"
                   THEN GlobalEnter(FlowCaller) /\ UNCHANGED indVars
                   ELSE IndEnter(FlowAccount) /\ UNCHANGED gVars
           ELSE /\ fpc' = "done"
                /\ LET w == IF outcome = "return" THEN WrapSuccess(NullValue)
                            ELSE IF fpc = "call" /\ handling = "duplicate" THEN WrapDuplicate
                            ELSE WrapFailure(error)
                   IN  wResult' = [success |-> w.success, error |-> w.error]
                /\ UNCHANGED <<wSwitchCalls, indVars, gVars>>
    /\ UNCHANGED <<fKind, fStep, ticketRefreshCount, currentProxyInfo, fResult, notified,
                   duplicateSeen, callAfterDuplicate, ticketInvalidSeen, wStepCalls,
                   callRoute, execVars, harnessVars>>

\* the wrapper's await of switchProxy() received its value
StubSwitchReturned ==
    /\ fpc = "switch"
    /\ IF fKind = "single" THEN gpc[FlowCaller] = "ret" ELSE swpc[FlowAccount] = "ret"
    /\ LET newProxyInfo == IF fKind = "single" THEN gRet[FlowCaller] ELSE swRet[FlowAccount]
           noRoute == WrapNoRoute(fKind, Thrown(lastResponse))
       IN  IF newProxyInfo # NoProxy
           THEN /\ fpc' = "retry"
                /\ lastResponse' = "none"
                /\ wStepCalls' = wStepCalls + 1
                /\ callRoute' = RetryRoute(newProxyInfo, callRoute)
                /\ UNCHANGED wResult
           ELSE /\ fpc' = "done"
                /\ wResult' = [success |-> noRoute.success, error |-> noRoute.error]
                /\ UNCHANGED <<lastResponse, wStepCalls, callRoute>>
    /\ IF fKind = "single"
       THEN /\ gpc' = [gpc EXCEPT ![FlowCaller] = "idle"]
            /\ UNCHANGED <<gSwitchCount, gProxyType, gRet, gLastRoute, gFetched, indVars>>
       ELSE /\ swpc' = [swpc EXCEPT ![FlowAccount] = "idle"]
            /\ UNCHANGED <<switchCount, currentProxy, swRet, swFetched, gVars>>
    /\ UNCHANGED <<fKind, fStep, ticketRefreshCount, currentProxyInfo, fResult, notified,
                   duplicateSeen, callAfterDuplicate, ticketInvalidSeen, wSwitchCalls,
                   execVars, harnessVars>>

NextWrap ==
    \/ \E kind \in FlowKinds, fresh \in BOOLEAN : WrapperCall(kind, fresh)
    \/ \E outcome \in StubOutcomes : StubStepSettled(outcome)
    \/ StubSwitchReturned
    \/ \E res \in {"proxy", "emptyList", "error"} : IndAcquireReturn(FlowAccount, res)
          /\ UNCHANGED <<execVars, gVars, harnessVars, flowVars>>
    \/ IndSleepDone(FlowAccount) /\ UNCHANGED <<execVars, gVars, harnessVars, flowVars>>
    \/ \E ok \in BOOLEAN : IndTestReturn(FlowAccount, ok)
          /\ UNCHANGED <<execVars, gVars, harnessVars, flowVars>>
    \/ \E ok \in BOOLEAN : GlobalAcquireReturn(FlowCaller, ok)
          /\ UNCHANGED <<execVars, indVars, harnessVars, flowVars>>
    \/ \E ok \in BOOLEAN : GlobalTestReturn(FlowCaller, ok)
          /\ UNCHANGED <<execVars, indVars, harnessVars, flowVars>>

SpecWrap == Init /\ [][NextWrap]_vars

\* -------------------------------------------------------------------
\* The dynamic executor's flow run with arbitrary step functions, so that a
\* step can also throw the DUPLICATE_SUBMISSION marker: specification
\* SpecStubFlow
\* -------------------------------------------------------------------

\* what one invocation of a step function does here: return its positive
\* result, or throw a NETWORK_ERROR marked Error or, the submit step only, a
\* DUPLICATE_SUBMISSION marked one
StubFlowOutcomes(step) ==
    {"return", "NETWORK_ERROR"} \cup (IF step = "submit" THEN {"DUPLICATE_SUBMISSION"} ELSE {})

\* executeStepWithProxyManager, lines 692-764, and the flow after it: the step
\* invocation in flight settled
FlowStubStepSettled(outcome) ==
    /\ fKind = "dynamic"
    /\ fpc \in {"call", "retry"}
    /\ outcome \in StubFlowOutcomes(fStep)
    /\ LET error == Thrown(outcome)
           handling == WrapperCatch(fKind, error)
           route == currentProxy[FlowAccount]
           w == IF outcome = "return" THEN WrapSuccess(StepValue(fStep, "ok"))
                ELSE IF fpc = "call" /\ handling = "duplicate" THEN WrapDuplicate
                ELSE WrapFailure(error)
       IN  /\ duplicateSeen' = (duplicateSeen \/ outcome = "DUPLICATE_SUBMISSION")
           /\ IF outcome # "return" /\ fpc = "call" /\ handling = "switch"
              THEN /\ fpc' = "switch"
                   /\ lastResponse' = outcome
                   /\ wSwitchCalls' = wSwitchCalls + 1
                   /\ IndEnter(FlowAccount)
                   /\ UNCHANGED <<fStep, ticketRefreshCount, fResult, notified,
                                  callAfterDuplicate, wStepCalls, callRoute, wResult>>
              ELSE /\ FlowGoto(FlowContinue(fKind, fStep, ticketRefreshCount, w), w,
                               outcome, route)
                   /\ UNCHANGED indVars
    /\ UNCHANGED <<fKind, currentProxyInfo, ticketInvalidSeen, execVars, gVars, harnessVars>>

NextStubFlow ==
    \/ FlowStart("dynamic")
    \/ \E outcome \in StubFlowOutcomes("submit") : FlowStubStepSettled(outcome)
    \/ FlowSwitchReturned
    \/ FlowNotificationSettled
    \/ \E res \in {"proxy", "error"} : IndAcquireReturn(FlowAccount, res)
          /\ UNCHANGED <<execVars, gVars, harnessVars, flowVars>>
    \/ \E ok \in BOOLEAN : IndTestReturn(FlowAccount, ok)
          /\ UNCHANGED <<execVars, gVars, harnessVars, flowVars>>

SpecStubFlow == Init /\ [][NextStubFlow]_vars

\* C33: once a step function of the dynamic flow has thrown an error marked
\* DUPLICATE_SUBMISSION, the wrapper has returned its shouldStop result after
\* that one invocation and without a switchProxy call, no further protocol call
\* is issued, and the flow's outcome is DUPLICATE_SUBMISSION.
C33_DuplicateThrowStopsFlow ==
    (fKind = "dynamic" /\ duplicateSeen) =>
        /\ wResult = [success |-> WrapDuplicate.success, error |-> WrapDuplicate.error]
        /\ wSwitchCalls = 0
        /\ wStepCalls = 1
        /\ fpc \in {"notify", "done"}
        /\ fpc = "done" => (fResult = Failed("DUPLICATE_SUBMISSION") /\ notified = "duplicate")

\* -------------------------------------------------------------------
\* The tasks of one dynamic run side by side: the executor binds the accounts
\* (with a route source that delivers), every started task owns the manager
\* createManager made for it, may call switchProxy after a failed step any
\* number of times, and ends with a result: specification SpecTasks
\* -------------------------------------------------------------------

\* createManager, part_002:224-229: a new IndependentProxyManager for every
\* task that is started; the managers of the other accounts are not touched
ManagersCreated(sc, started) == [a \in Accounts |-> IF a \in started THEN 0 ELSE sc[a]]

\* executeSingleAccountWithProxy, line 486: the manager the task of the account
\* works with is the one created for it, never another task's
ManagerOfShared(a) == 1
ManagerOf(a) == a

\* validateAndImmediatelyAssign with startSingleAccountTask and the synchronous
\* head of executeSingleAccountWithProxy (part_000:482-493)
TaskBound(ok) ==
    /\ DeliveringValidation(ok)
    /\ LET started == {a \in Accounts : startCount'[a] > startCount[a]}
       IN /\ switchCount' = ManagersCreated(switchCount, started)
          /\ currentProxy' = [a \in Accounts |->
                                 IF a \in started THEN boundProxy'[a] ELSE currentProxy[a]]
          /\ taskAt' = [a \in Accounts |-> IF a \in started THEN "fetch" ELSE taskAt[a]]
    /\ actor' = 0
    /\ UNCHANGED <<swpc, swRet, swFetched, gVars, harness, multi, machines, lastCall, callVars, netVars, flowVars>>

\* executeStepWithProxyManager, line 728: a step of the task failed with a
\* network error and the task calls its manager's switchProxy
TaskSwitchProxy(a) ==
    /\ a \in runningTasks
    /\ IndCallSwitchProxy(ManagerOf(a))
    /\ actor' = a
    /\ UNCHANGED <<execVars, gVars, harness, multi, machines, lastCall, callVars, netVars, taskAt, flowVars>>

TaskAcquireReturn(a, res) ==
    /\ a \in runningTasks
    /\ IndAcquireReturn(ManagerOf(a), res)
    /\ actor' = a
    /\ UNCHANGED <<execVars, gVars, harness, multi, machines, lastCall, callVars, netVars, taskAt, flowVars>>

TaskTestReturn(a, ok) ==
    /\ a \in runningTasks
    /\ IndTestReturn(ManagerOf(a), ok)
    /\ actor' = a
    /\ UNCHANGED <<execVars, gVars, harness, multi, machines, lastCall, callVars, netVars, taskAt, flowVars>>

\* lines 728-757: the task received the new route, or null
TaskSwitchReturned(a) ==
    /\ a \in runningTasks
    /\ IndCallReturned(ManagerOf(a))
    /\ actor' = a
    /\ UNCHANGED <<execVars, gVars, harness, multi, machines, lastCall, callVars, netVars, taskAt, flowVars>>

\* the flow of the task ended, with success or with a terminal failure
TaskEnds(a, res) ==
    /\ swpc[ManagerOf(a)] = "idle"
    /\ TaskComplete(a, res)
    /\ taskAt' = [taskAt EXCEPT ![a] = "none"]
    /\ actor' = a
    /\ UNCHANGED <<ghostVars, indVars, gVars, harness, multi, machines, lastCall, callVars, netVars, flowVars>>

NextTasks ==
    \/ \E list \in InjectiveSeqs(Accounts) :
          /\ runPhase = "idle" /\ ExecuteDynamicMultipleAccounts(list)
          /\ actor' = 0 /\ UNCHANGED <<indVars, gVars, harness, multi, machines, lastCall, callVars, netVars, taskAt, flowVars>>
    \/ AllocLoop /\ actor' = 0 /\ UNCHANGED <<indVars, gVars, harness, multi, machines, lastCall, callVars, netVars, taskAt, flowVars>>
    \/ AllocFetchReturn(1) /\ actor' = 0
          /\ UNCHANGED <<ghostVars, indVars, gVars, harness, multi, machines, lastCall, callVars, netVars, taskAt, flowVars>>
    \/ \E ok \in BOOLEAN : TaskBound(ok)
    \/ AllocBatchSettled /\ actor' = 0
          /\ UNCHANGED <<ghostVars, indVars, gVars, harness, multi, machines, lastCall, callVars, netVars, taskAt, flowVars>>
    \/ \E a \in Accounts : TaskSwitchProxy(a)
    \/ \E a \in Accounts, res \in {"proxy", "error"} : TaskAcquireReturn(a, res)
    \/ \E a \in Accounts, ok \in BOOLEAN : TaskTestReturn(a, ok)
    \/ \E a \in Accounts : TaskSwitchReturned(a)
    \/ \E a \in Accounts, res \in FlowResults : TaskEnds(a, res)

SpecTasks == Init /\ [][NextTasks]_vars

\* -------------------------------------------------------------------
\* A dynamic run in which nothing fails: every getProxyFromSource call returns
\* at least one candidate, every candidate passes validation, and every
\* request of every flow is answered with success at once: specification
\* SpecAllSucceed. Only the time the calls take is left open.
\* -------------------------------------------------------------------

\* executeFlowWithProxyManager, lines 549-587: the request of the step the
\* account's flow awaits was answered with success; the step function returns,
\* the wrapper wraps the value, and the flow runs on to its next await
FlowCallSucceeds(a) ==
    /\ a \in runningTasks
    /\ taskAt[a] \in {"fetch", "verify", "submit"}
    /\ StepOutcome(taskAt[a], "ok") = "return"
    /\ LET n == ExecutorFlowContinue("dynamic", taskAt[a], 0,
                                     WrapSuccess(StepValue(taskAt[a], "ok")))
       IN taskAt' = [taskAt EXCEPT ![a] = IF n.pc = "call" THEN n.step ELSE n.pc]
    /\ actor' = a
    /\ UNCHANGED <<execVars, indVars, gVars, harness, multi, machines, lastCall, callVars, netVars, flowVars>>

\* lines 597-602 and 421-430: the success notification settled, the flow
\* returns the submit result and the task's then-handler records it
FlowNotified(a) ==
    /\ taskAt[a] = "notify"
    /\ LET n == ExecutorFlowContinue("dynamic", "submit", 0,
                                     WrapSuccess(StepValue("submit", "ok")))
       IN TaskComplete(a, n.result)
    /\ taskAt' = [taskAt EXCEPT ![a] = "none"]
    /\ actor' = a
    /\ UNCHANGED <<ghostVars, indVars, gVars, harness, multi, machines, lastCall, callVars, netVars, flowVars>>

NextAllSucceed ==
    \/ \E list \in InjectiveSeqs(Accounts) :
          /\ runPhase = "idle" /\ ExecuteDynamicMultipleAccounts(list)
          /\ actor' = 0 /\ UNCHANGED <<indVars, gVars, harness, multi, machines, lastCall, callVars, netVars, taskAt, flowVars>>
    \/ AllocLoop /\ actor' = 0 /\ UNCHANGED <<indVars, gVars, harness, multi, machines, lastCall, callVars, netVars, taskAt, flowVars>>
    \/ \E k \in 1..(waitingAccounts + MaxExtra) : AllocFetchReturn(k) /\ actor' = 0
          /\ UNCHANGED <<ghostVars, indVars, gVars, harness, multi, machines, lastCall, callVars, netVars, taskAt, flowVars>>
    \/ TaskBound(TRUE)
    \/ AllocBatchSettled /\ actor' = 0
          /\ UNCHANGED <<ghostVars, indVars, gVars, harness, multi, machines, lastCall, callVars, netVars, taskAt, flowVars>>
    \/ MonitorCheck /\ actor' = 0
          /\ UNCHANGED <<ghostVars, indVars, gVars, harness, multi, machines, lastCall, callVars, netVars, taskAt, flowVars>>
    \/ MonitorWake /\ actor' = 0
          /\ UNCHANGED <<ghostVars, indVars, gVars, harness, multi, machines, lastCall, callVars, netVars, taskAt, flowVars>>
    \/ CeilingElapses /\ actor' = 0
          /\ UNCHANGED <<ghostVars, indVars, gVars, harness, multi, machines, lastCall, callVars, netVars, taskAt, flowVars>>
    \/ \E a \in Accounts : FlowCallSucceeds(a)
    \/ \E a \in Accounts : FlowNotified(a)
    \/ ReturnResults /\ actor' = 0
          /\ UNCHANGED <<ghostVars, indVars, gVars, harness, multi, machines, lastCall, callVars, netVars, taskAt, flowVars>>

SpecAllSucceed == Init /\ [][NextAllSucceed]_vars

\* C29: when nothing fails, the run returns a Success for every account of the
\* list, and no account's manager has switched (switchCount is 0).
C29_AllSucceedWithoutSwitch ==
    /\ \A a \in Accounts : switchCount[a] = 0
    /\ runPhase = "returned" =>
          \A a \in Range(accountList) :
              \E i \in DOMAIN finalResults :
                  finalResults[i].key = a /\ finalResults[i].val.success

\* -------------------------------------------------------------------
\* isNetworkError of both managers as a function of the error object:
\* specification SpecNet
\* -------------------------------------------------------------------

\* String.prototype.toLowerCase on the characters error messages are made of
LowerChar(c) ==
    CASE c = "A" -> "a"
      [] c = "B" -> "b"
      [] c = "C" -> "c"
      [] c = "D" -> "d"
      [] c = "E" -> "e"
      [] c = "F" -> "f"
      [] c = "G" -> "g"
      [] c = "H" -> "h"
      [] c = "I" -> "i"
      [] c = "J" -> "j"
      [] c = "K" -> "k"
      [] c = "L" -> "l"
      [] c = "M" -> "m"
      [] c = "N" -> "n"
      [] c = "O" -> "o"
      [] c = "P" -> "p"
      [] c = "Q" -> "q"
      [] c = "R" -> "r"
      [] c = "S" -> "s"
      [] c = "T" -> "t"
      [] c = "U" -> "u"
      [] c = "V" -> "v"
      [] c = "W" -> "w"
      [] c = "X" -> "x"
      [] c = "Y" -> "y"
      [] c = "Z" -> "z"
      [] OTHER -> c
ToLowerCase(str) == [i \in 1..Len(str) |-> LowerChar(str[i])]

\* String.prototype.includes
Includes(str, part) ==
    \E i \in 1..(Len(str) - Len(part) + 1) : SubSeq(str, i, i + Len(part) - 1) = part

\* the connection error codes of lines 37-44 (proxy-manager.js 52-59)
ConnectionCodes == {"ECONNRESET", "ECONNREFUSED", "ETIMEDOUT", "ENOTFOUND", "ECONNABORTED", "EHOSTUNREACH", "ENETUNREACH", "EAI_AGAIN"}

\* the message parts tested whatever the status is (lines 46-57, 68-75, 77-79)
TransportParts ==
    { <<"t", "l", "s">>,
      <<"s", "s", "l">>,
      <<"s", "e", "c", "u", "r", "e">>,
      <<"c", "e", "r", "t", "i", "f", "i", "c", "a", "t", "e">>,
      <<"h", "a", "n", "d", "s", "h", "a", "k", "e">>,
      <<"s", "o", "c", "k", "e", "t">>,
      <<"d", "i", "s", "c", "o", "n", "n", "e", "c", "t", "e", "d">>,
      <<"c", "l", "o", "s", "e", "d">>,
      <<"e", "n", "d", "e", "d">>,
      <<"p", "r", "o", "x", "y">>,
      <<"t", "u", "n", "n", "e", "l">>,
      <<"n", "e", "t", "w", "o", "r", "k">>,
      <<"d", "n", "s">>,
      <<"r", "e", "s", "o", "l", "v", "e">>,
      <<"n", "e", "t", "w", "o", "r", "k", " ", "e", "r", "r", "o", "r">>,
      <<"r", "e", "q", "u", "e", "s", "t", " ", "t", "i", "m", "e", "o", "u", "t">>,
      <<"g", "e", "t", "a", "d", "d", "r", "i", "n", "f", "o">>,
      <<"e", "a", "i", "_", "a", "g", "a", "i", "n">>,
      <<"l", "o", "o", "k", "u", "p">> }

\* the message parts tested only when there is no status (lines 59-66, 74)
ConnectParts ==
    { <<"c", "o", "n", "n", "e", "c", "t">>,
      <<"c", "o", "n", "n", "e", "c", "t", "i", "o", "n">>,
      <<"r", "e", "f", "u", "s", "e", "d">>,
      <<"r", "e", "s", "e", "t">>,
      <<"t", "i", "m", "e", "o", "u", "t">>,
      <<"u", "n", "r", "e", "a", "c", "h", "a", "b", "l", "e">>,
      <<"r", "e", "q", "u", "e", "s", "t", " ", "f", "a", "i", "l", "e", "d">> }

\* lines 26-28: the three values the test works on
ErrorMessage(error) == IF error.message = NoMessage THEN <<>> ELSE ToLowerCase(error.message)
ErrorCode(error) == error.code
ErrorStatus(error) == IF error.response = NoResponse THEN 0 ELSE error.response.status

\* line 35: HTTP 5xx, or no status at all
NetworkStatusFrom400(status) == status >= 400 \/ status = 0
NetworkStatus(status) == status >= 500 \/ status = 0

\* IndependentProxyManager.isNetworkError, part_002:23-89
IndIsNetworkError(error) ==
    IF error = NullError THEN FALSE
    ELSE LET errorMessage == ErrorMessage(error)
             errorCode == ErrorCode(error)
             status == ErrorStatus(error)
         IN \/ NetworkStatus(status)
            \/ errorCode \in ConnectionCodes
            \/ \E part \in TransportParts : Includes(errorMessage, part)
            \/ (status = 0 /\ \E part \in ConnectParts : Includes(errorMessage, part))

\* ProxyManager.isNetworkError, proxy-manager.js:38-104
GlobalIsNetworkError(error) ==
    IF error = NullError THEN FALSE
    ELSE LET errorMessage == ErrorMessage(error)
             errorCode == ErrorCode(error)
             status == ErrorStatus(error)
         IN \/ NetworkStatus(status)
            \/ errorCode \in ConnectionCodes
            \/ \E part \in TransportParts : Includes(errorMessage, part)
            \/ (status = 0 /\ \E part \in ConnectParts : Includes(errorMessage, part))

\* the errors the function is applied to: axios errors with and without a
\* response, Node errors with a code, plain Errors, and null
ErrorStatuses == {0, 200, 302, 400, 401, 404, 407, 499, 500, 502, 503}
ErrorCodes == ConnectionCodes \cup {"", "ERR_BAD_REQUEST", "EPIPE"}
ErrorMessages ==
    { <<"R", "e", "q", "u", "e", "s", "t", " ", "f", "a", "i", "l", "e", "d", " ", "w", "i", "t", "h", " ", "s", "t", "a", "t", "u", "s", " ", "c", "o", "d", "e", " ", "4", "0", "0">>,
      <<"N", "e", "t", "w", "o", "r", "k", " ", "E", "r", "r", "o", "r">>,
      <<"s", "o", "c", "k", "e", "t", " ", "h", "a", "n", "g", " ", "u", "p">>,
      <<"t", "i", "m", "e", "o", "u", "t", " ", "o", "f", " ", "5", "0", "0", "0", "m", "s", " ", "e", "x", "c", "e", "e", "d", "e", "d">>,
      <<"c", "o", "n", "n", "e", "c", "t", " ", "E", "C", "O", "N", "N", "R", "E", "F", "U", "S", "E", "D">>,
      <<"B", "a", "d", " ", "R", "e", "q", "u", "e", "s", "t">>,
      <<"P", "r", "o", "x", "y", " ", "A", "u", "t", "h", "e", "n", "t", "i", "c", "a", "t", "i", "o", "n", " ", "R", "e", "q", "u", "i", "r", "e", "d">>,
      <<"T", "L", "S", " ", "h", "a", "n", "d", "s", "h", "a", "k", "e", " ", "f", "a", "i", "l", "e", "d">>,
      <<"r", "e", "a", "d", " ", "E", "C", "O", "N", "N", "R", "E", "S", "E", "T">> }
ErrorObjects ==
    [response : {NoResponse} \cup [status : ErrorStatuses],
     code : ErrorCodes,
     message : ErrorMessages \cup {NoMessage}]

InitNet ==
    /\ InitExecutor
    /\ InitManagers
    /\ InitFlow
    /\ harness = "none"
    /\ actor = 0
    /\ netError \in ErrorObjects \cup {NullError}
    /\ netAnswer = NotAsked
    /\ taskAt = [a \in Accounts |-> "none"]
    /\ lastCall = "none"
    /\ multi = MultiIdle
    /\ machines = NoMachines
    /\ callEntry = 0
    /\ callFetches = 0
    /\ callPassed = FALSE

\* a caller asks one of the two managers about the error
IndIsNetworkErrorCalled ==
    /\ netAnswer = NotAsked
    /\ netAnswer' = [manager |-> "independent", answer |-> IndIsNetworkError(netError)]
    /\ UNCHANGED <<netError, execVars, indVars, gVars, harness, multi, machines, lastCall, callVars, actor, taskAt, flowVars>>

GlobalIsNetworkErrorCalled ==
    /\ netAnswer = NotAsked
    /\ netAnswer' = [manager |-> "global", answer |-> GlobalIsNetworkError(netError)]
    /\ UNCHANGED <<netError, execVars, indVars, gVars, harness, multi, machines, lastCall, callVars, actor, taskAt, flowVars>>

NextNet ==
    \/ IndIsNetworkErrorCalled
    \/ GlobalIsNetworkErrorCalled

SpecNet == InitNet /\ [][NextNet]_vars

\* what the two managers are stated to answer: an error object whose status
\* is 5xx, zero or absent, whose code is a connection code, or whose
\* lower-cased message contains a transport part
StatedNetworkError(error) ==
    /\ error # NullError
    /\ \/ error.response = NoResponse
       \/ error.response.status = 0
       \/ error.response.status >= 500
       \/ error.code \in ConnectionCodes
       \/ /\ error.message # NoMessage
          /\ \E part \in TransportParts : Includes(ToLowerCase(error.message), part)

\* C27: both managers give the same answer on every error, and the answer is
\* true exactly for an error with status >= 500 or no (or zero) status, or a
\* listed connection code, or a lower-cased message containing a listed
\* transport part; null and every other error (a 4xx without such a code or
\* part) give false
C27_IsNetworkErrorCharacterised ==
    /\ IndIsNetworkError(netError) = GlobalIsNetworkError(netError)
    /\ netAnswer # NotAsked => netAnswer.answer = StatedNetworkError(netError)

\* a 400 whose message is axios's "Request failed with status code 400" and
\* whose code is not a connection code was answered false by the independent
\* manager
C27_Witness ==
    /\ netAnswer # NotAsked
    /\ netAnswer.manager = "independent"
    /\ netAnswer.answer = FALSE
    /\ netError # NullError
    /\ netError.response # NoResponse
    /\ netError.response.status = 400
    /\ netError.code = "ERR_BAD_REQUEST"
    /\ netError.message # NoMessage
    /\ Includes(ToLowerCase(netError.message), <<"r", "e", "q", "u", "e", "s", "t", " ", "f", "a", "i", "l", "e", "d">>)

\* ===================================================================
\* Properties of the purchase flows (specification SpecFlow)
\* ===================================================================

\* C4: in the dynamic executor's flow, once the backend answered a SUBMIT call
\* with the duplicate-submission rejection, no further SUBMIT or FETCH_TICKET
\* call is issued for the task and the task's outcome is Duplicate.
C4_DuplicateStopsTask ==
    (fKind = "dynamic" /\ duplicateSeen) =>
        /\ ~callAfterDuplicate
        /\ fpc = "done" => fResult = Failed("DUPLICATE_SUBMISSION")

\* C5: in both executors' flows every ticket-invalid answer to SUBMIT received
\* below the bound has been counted in ticketRefreshCount and sent the run back to
\* FETCH_TICKET, so two ticket-invalid answers followed by a success end in
\* Success with ticketRefreshCount = 2.
C5_TicketInvalidRefreshes ==
    fKind \in {"dynamic", "multi"} =>
        /\ ticketRefreshCount = ticketInvalidSeen
        /\ (fpc = "done" /\ fResult.error = "TICKET_EXPIRED") => ticketInvalidSeen = 0

\* C37: the dynamic executor's flow requests the success notification only in
\* runs whose outcome has success = TRUE; a run that ends with a ticket-expired,
\* duplicate or failed outcome has requested no success notification.
C37_SuccessNotifiedOnlyOnSuccess ==
    (fKind = "dynamic" /\ fpc \in {"notify", "done"} /\ notified = "success")
        => fResult.success

\* the step invocation in flight threw in this step: the flow left its "call" or
\* "retry" position on an answer that makes the step function throw
StepInvocationThrew ==
    /\ fpc \in {"call", "retry"}
    /\ fpc' # fpc
    /\ lastResponse' \in Responses(fStep)
    /\ StepOutcome(fStep, lastResponse') = "throw"

\* C38 as stated: every step invocation that fails triggers a switchProxy call.
C38_EveryFailedInvocationSwitches ==
    [][StepInvocationThrew => fpc' = "switch" /\ wSwitchCalls' = wSwitchCalls + 1]_vars

\* C38, amended: the step functions leave their loop only by returning or by
\* throwing a NETWORK_ERROR marked error; when the first invocation of a wrapper
\* invocation throws, the wrapper classifies the error as transport-layer and
\* calls switchProxy, so a wrapper invocation never fails through the
\* business-layer branch and every failed wrapper invocation has made exactly one
\* switchProxy call; when the invocation after the switch throws, the wrapper
\* returns failure without a further switchProxy call.
C38_FirstFailureAlwaysSwitches ==
    /\ [][(StepInvocationThrew /\ fpc = "call")
              => fpc' = "switch" /\ wSwitchCalls' = wSwitchCalls + 1]_vars
    /\ [][(StepInvocationThrew /\ fpc = "retry")
              => fpc' = "done" /\ ~wResult'.success /\ wSwitchCalls' = wSwitchCalls]_vars
    /\ []((fpc = "done" /\ ~wResult.success /\ wResult.error # "pending")
              => wSwitchCalls = 1)

\* the invocation after a switch threw as well: two invocations, one switchProxy call
C38_Witness ==
    /\ fKind = "dynamic"
    /\ fpc = "done"
    /\ fStep = "submit"
    /\ ~wResult.success
    /\ wResult.error = "NETWORK_ERROR"
    /\ wStepCalls = 2
    /\ wSwitchCalls = 1

\* the flows of the two executors, which run on the account's IndependentProxyManager
OnIndependentManager == fKind \in {"dynamic", "multi"}

\* C39: in the executor flows switchCount is 0 whenever the step wrapper makes
\* its top-level switchProxy call; outside a switchProxy call switchCount is
\* non-zero only after a call returned null, and then the flow has ended in
\* failure: the task makes no further protocol call and no further switchProxy
\* call (the only step left is the start of another task on a new manager).
C39_SwitchCountZeroAtTopLevelCall ==
    /\ [][(OnIndependentManager /\ fpc = "call" /\ fpc' = "switch")
              => switchCount[FlowAccount] = 0]_vars
    /\ []((OnIndependentManager /\ fpc \in {"call", "retry", "notify", "done"}
              /\ switchCount[FlowAccount] # 0)
              => /\ fpc = "done"
                 /\ swRet[FlowAccount] = NoProxy
                 /\ switchCount[FlowAccount] = maxSwitchAttempts
                 /\ ~fResult.success)
    /\ [][(OnIndependentManager /\ fpc = "done" /\ switchCount[FlowAccount] # 0
              /\ fpc' # "done")
              => /\ fpc' = "call" /\ fStep' = "fetch" /\ wStepCalls' = 1
                 /\ (fKind' = "single" \/ switchCount'[FlowAccount] = 0)]_vars

\* a top-level call that used all its attempts returned null and ended the flow
C39_Witness ==
    /\ fKind = "dynamic"
    /\ fpc = "done"
    /\ fStep = "verify"
    /\ wSwitchCalls = 1
    /\ wStepCalls = 1
    /\ swRet[FlowAccount] = NoProxy
    /\ switchCount[FlowAccount] = maxSwitchAttempts

\* C28: in executePurchaseFlow every ticket-invalid answer of submitReservation
\* is counted in ticketRefreshCount; when the count is below maxTicketRefresh
\* after the increment the flow is back at getSystemTicket, and SUBMIT is only
\* reached again through getSystemTicket and verifyTicket; so a run with k <
\* maxTicketRefresh ticket-invalid answers followed by a successful submit
\* ends with Success and ticketRefreshCount = k.
C28_PurchaseFlowRefreshesTicket ==
    /\ [](fKind = "single" =>
            /\ ticketRefreshCount = ticketInvalidSeen
            /\ (fpc = "done" /\ fResult.success) => ticketInvalidSeen < maxTicketRefresh)
    /\ [][fKind = "single" /\ fKind' = "single" =>
            /\ (ticketInvalidSeen' = ticketInvalidSeen + 1
                  /\ ticketRefreshCount + 1 < maxTicketRefresh)
                  => /\ ticketRefreshCount' = ticketRefreshCount + 1
                     /\ fpc' = "call"
                     /\ fStep' = "fetch"
            /\ (fStep' = "submit" /\ fStep # "submit") => fStep = "verify"
            /\ (fStep' = "verify" /\ fStep # "verify") => fStep = "fetch"]_vars

\* two ticket-invalid answers, then a successful submit
C28_Witness ==
    /\ fKind = "single"
    /\ fpc = "done"
    /\ fResult.success
    /\ ticketInvalidSeen = 2
    /\ ticketRefreshCount = 2

\* C6: in every flow implementation ticketRefreshCount starts at 0, never
\* decreases within a run, never exceeds maxTicketRefresh, and a run in which it
\* reaches maxTicketRefresh has ended Failed with the max-ticket-refresh reason.
C6_TicketRefreshBounded ==
    /\ [](/\ 0 <= ticketRefreshCount
          /\ ticketRefreshCount <= maxTicketRefresh
          /\ ticketRefreshCount = maxTicketRefresh =>
                (fpc = "done" /\ fResult = Failed("maxRefreshReached")))
    /\ [][IF fpc \in {"idle", "done"}
          THEN fpc' \notin {"idle", "done"} => ticketRefreshCount' = 0
          ELSE ticketRefreshCount' >= ticketRefreshCount]_vars

C6_Witness ==
    /\ fKind = "single"
    /\ ticketRefreshCount = maxTicketRefresh
    /\ fpc = "done"

\* C7: a task whose proxy manager's switchCount reached maxSwitchAttempts, so
\* that switchProxy returned null, ends Failed with the route-exhaustion reason.
C7_ExhaustionFailsWithRouteReason ==
    (/\ fKind \in {"dynamic", "multi"}
     /\ fpc = "done"
     /\ switchCount[FlowAccount] = maxSwitchAttempts) =>
        fResult = Failed("noProxyAvailable")

\* C11: a SUBMIT answer that is a business rejection other than duplicate or
\* ticket-invalid makes the task Failed immediately: once it is received the
\* flow has ended Failed and no SUBMIT request is in flight any more.
C11_OtherRejectionFailsAtOnce ==
    (fStep = "submit" /\ lastResponse = "otherReject") =>
        (fpc = "done" /\ ~fResult.success)

\* C12: a wrapper invocation whose step throws a transport-layer error calls
\* switchProxy exactly once; with a route it invokes the step exactly once more,
\* on the new route; if that invocation throws too, the wrapper returns failure
\* with the retry's error, without another switch or retry. So there are at most
\* two step invocations and one top-level switchProxy call per wrapper invocation.
C12_WrapperSwitchesAndRetriesOnce ==
    /\ wStepCalls <= 2
    /\ wSwitchCalls <= 1
    /\ fpc = "switch" => (wStepCalls = 1 /\ wSwitchCalls = 1)
    /\ fpc = "retry" =>
          /\ wStepCalls = 2
          /\ wSwitchCalls = 1
          /\ callRoute # NoProxy
          /\ callRoute = IF fKind = "single" THEN gRet[FlowCaller]
                         ELSE currentProxy[FlowAccount]
    /\ fpc # "switch" => (swpc[FlowAccount] = "idle" /\ gpc[FlowCaller] = "idle")
    /\ (fpc = "done" /\ wStepCalls = 2 /\ StepOutcome(fStep, lastResponse) = "throw") =>
          wResult = [success |-> FALSE, error |-> "NETWORK_ERROR"]

C12_Witness ==
    /\ fpc = "done"
    /\ wStepCalls = 2
    /\ wSwitchCalls = 1
    /\ lastResponse = "transportErr"
    /\ wResult = [success |-> FALSE, error |-> "NETWORK_ERROR"]

\* C13: when the first invocation of the step throws an error classified
\* business-layer, the wrapper returns failure with that error, without calling
\* switchProxy and without invoking the step again; the manager's switchCount and
\* current route are unchanged.
C13_BusinessErrorNotRetried ==
    [][(fpc = "call" /\ lastResponse' = "business") =>
          /\ fpc' = "done"
          /\ wResult' = [success |-> FALSE, error |-> "business"]
          /\ wStepCalls' = 1
          /\ wSwitchCalls' = 0
          /\ UNCHANGED <<switchCount, currentProxy, gSwitchCount, currentProxyInfo>>]_vars

C13_Witness ==
    /\ fKind = "dynamic"
    /\ fpc = "done"
    /\ lastResponse = "business"
    /\ wStepCalls = 1
    /\ wResult = [success |-> FALSE, error |-> "business"]

\* C14: when the step threw a transport-layer error and switchProxy returned
\* null, the wrapper returns a failed step result with the no-route-available
\* error at once, without invoking the step again or acquiring again.
C14_NoRouteFailsStep ==
    (fpc = "done" /\ wSwitchCalls = 1 /\ wStepCalls = 1) =>
        wResult = [success |-> FALSE, error |-> "noProxyAvailable"]

\* C15: the hot-poll loops of FETCH_TICKET and VERIFY_TICKET end as soon as a
\* call raises an error, transport-layer or business-layer: no invocation of
\* getSystemTicket or verifyTicket is still polling after an error answer.
C15_PollEndsOnAnyError ==
    (fStep \in {"fetch", "verify"} /\ lastResponse \in {"transportErr", "http5xx", "http4xx"}) =>
        fpc \notin {"call", "retry"}

\* ===================================================================
\* Properties of the dynamic executor (specification Spec)
\* ===================================================================

ResultsOf(m, account) == {i \in DOMAIN m : m[i].key = account}

\* the accounts a validated route is handed to
HoldersOf(proxy) ==
    {a \in Accounts : boundProxy[a] = proxy}
    \cup (IF preparedAccounts = UNDEF THEN {}
          ELSE {preparedAccounts[i].key : i \in
                   {j \in DOMAIN preparedAccounts : preparedAccounts[j].val = proxy}})

\* C1: when executeDynamicMultipleAccounts has returned, the returned array holds
\* exactly one result for every account of the input list.
C1_ExactlyOneResultPerAccount ==
    runPhase = "returned" =>
        \A a \in Range(accountList) : Cardinality(ResultsOf(finalResults, a)) = 1

\* C2: every validated route is held by exactly one account or is in proxyQueue
\* exactly once, never by two accounts and never both held and queued.
C2_RouteBoundAtMostOnce ==
    \A proxy \in 1..(nextRoute - 1) :
        LET queued == {i \in DOMAIN proxyQueue : proxyQueue[i] = proxy}
        IN Cardinality(HoldersOf(proxy)) + Cardinality(queued) = 1

C2_Witness ==
    /\ Len(proxyQueue) > 0
    /\ \A a \in Accounts : boundProxy[a] # NoProxy

\* C3: every account is taken from accountQueue at most once and its state machine
\* is started at most once: a started account is no longer queued, and the queue
\* never holds an account twice.
C3_StartedAtMostOnce ==
    /\ \A a \in Accounts : startCount[a] <= 1
    /\ \A a \in Accounts : startCount[a] = 1 => a \notin Range(accountQueue)
    /\ \A i, j \in DOMAIN accountQueue : i # j => accountQueue[i] # accountQueue[j]

C3_Witness ==
    /\ apc = "validating"
    /\ batchValidated = NumAccounts
    /\ \A a \in Accounts : startCount[a] = 1

\* C16: accountQueue and proxyQueue are never both non-empty when control
\* returns from a matching pass, in normal mode and in prepare mode.
C16_QueuesNeverBothNonEmpty ==
    Len(accountQueue) = 0 \/ Len(proxyQueue) = 0

C16_Witness ==
    /\ preparedAccounts # UNDEF
    /\ Len(preparedAccounts) = NumAccounts
    /\ Len(proxyQueue) > 0
    /\ Len(accountQueue) = 0

\* an account got a route in this step: its task was started or it was marked
\* prepared
BindingStep ==
    \/ \E a \in Accounts : boundProxy'[a] # boundProxy[a]
    \/ startCount' # startCount
    \/ (preparedAccounts # UNDEF /\ preparedAccounts' # UNDEF
        /\ Len(preparedAccounts') > Len(preparedAccounts))

\* C17: an account is started or marked prepared only with a route whose
\* testProxyIP validation succeeded (in this step, or earlier for a route taken
\* from proxyQueue); a candidate whose validation fails binds nothing, and an
\* account leaves accountQueue only by being bound.
C17_OnlyValidatedRoutesBound ==
    [][/\ BindingStep =>
            \/ (pending' = pending - 1 /\ lastTest' = "passed")
            \/ Len(proxyQueue') < Len(proxyQueue)
       /\ (pending' = pending - 1 /\ lastTest' = "failed") =>
            UNCHANGED <<accountQueue, proxyQueue, runningTasks, boundProxy, startCount,
                        preparedAccounts, nextRoute>>
       /\ (runPhase' = runPhase /\ accountQueue' # accountQueue) => BindingStep]_vars

C17_Witness ==
    /\ failedTests = 2
    /\ lastTest = "passed"
    /\ nextRoute = 2
    /\ Len(accountList) = 1
    /\ boundProxy[accountList[1]] = 1
    /\ Len(accountQueue) = 0

\* the account was given a route in this run: a task was started for it or it
\* was marked prepared
Prepared(a) == preparedAccounts # UNDEF /\ a \in MapKeys(preparedAccounts)

Bound(a) == boundProxy[a] # NoProxy \/ Prepared(a)

\* tryAssignProxyToAccount applied to every pair of queues of distinct accounts
\* and distinct routes: the i-th oldest account gets the i-th oldest route, and
\* what is left of each queue is its tail
TryAssignPairsOldest ==
    \A aq \in InjectiveSeqs(Accounts), pq \in InjectiveSeqs(RouteIds) :
        LET n  == IF Len(aq) < Len(pq) THEN Len(aq) ELSE Len(pq)
            st == TryAssignProxyToAccount(
                      [pq |-> pq, aq |-> aq, running |-> {},
                       bound |-> [a \in Accounts |-> NoProxy],
                       starts |-> [a \in Accounts |-> 0]])
        IN /\ \A i \in 1..n : st.bound[aq[i]] = pq[i]
           /\ st.running = {aq[i] : i \in 1..n}
           /\ st.aq = SubSeq(aq, n + 1, Len(aq))
           /\ st.pq = SubSeq(pq, n + 1, Len(pq))

\* C18: matching is FIFO on the waiting queue: accountQueue is always the tail
\* of accountList, exactly the accounts before that tail have been bound (so no
\* account is bound while an earlier one of the list still waits), and
\* tryAssignProxyToAccount pairs the oldest queued route with the oldest waiting
\* account.
C18_AccountsBoundInListOrder ==
    /\ runPhase # "idle" =>
          LET done == Len(accountList) - Len(accountQueue)
          IN /\ done >= 0
             /\ accountQueue = SubSeq(accountList, done + 1, Len(accountList))
             /\ \A i \in 1..Len(accountList) : Bound(accountList[i]) <=> i <= done
    /\ TryAssignPairsOldest

C18_Witness ==
    /\ accountList = <<2, 1>>
    /\ accountQueue = <<1>>
    /\ Bound(2)
    /\ ~Bound(1)
    /\ failedTests > 0

\* C19: a run makes at most maxAttempts (20) getProxyFromSource calls; every
\* call, whether it returns an empty list, throws, or returns candidates (also
\* when all of them fail validation), uses up exactly one attempt; and the loop
\* ends at an iteration start exactly when accountQueue is empty or the attempts
\* are used up.
C19_AtMostTwentyAcquisitions ==
    /\ [](/\ fetchCalls <= maxAttempts
          /\ runPhase # "idle" =>
                attempt = IF apc \in {"fetch", "validating"} THEN fetchCalls
                                                             ELSE fetchCalls + 1
          /\ apc = "done" => (Len(accountQueue) = 0 \/ attempt > maxAttempts))
    /\ [][/\ (apc = "loop" /\ apc' # "loop") =>
                (apc' = "done" <=> (Len(accountQueue) = 0 \/ attempt > maxAttempts))
          /\ (apc = "fetch" /\ apc' = "sleep" /\ pending' = pending) =>
                attempt' = attempt + 1
          /\ (apc = "validating" /\ apc' # "validating") => attempt' = attempt + 1
          /\ attempt' # attempt =>
                (apc \in {"fetch", "validating"} \/ runPhase = "idle")]_vars

C19_Witness ==
    /\ apc = "done"
    /\ fetchCalls = maxAttempts
    /\ attempt = maxAttempts + 1
    /\ Len(accountQueue) > 0
    /\ lastTest = "failed"

\* C20 as stated: with a source that delivers a passing candidate on every
\* acquisition call no waiting account is starved, so when the allocator loop
\* has ended every account of the queue has been bound.
C20_NoAccountStarved == apc = "done" => Len(accountQueue) = 0

\* C20, amended: with a source that delivers a passing candidate on every
\* acquisition call, the accounts at the first maxAttempts (20) places of the
\* list are all eventually bound; a later account can be left waiting when the
\* 20 attempts are used up.
C20_FirstTwentyEventuallyBound ==
    (runPhase = "preparing") ~>
        (\A i \in 1..Len(accountList) : i <= maxAttempts => Prepared(accountList[i]))

C20_Witness ==
    /\ runPhase = "prepared"
    /\ fetchCalls = maxAttempts
    /\ Len(accountList) = maxAttempts + 1
    /\ \A i \in 1..maxAttempts : Prepared(accountList[i])
    /\ accountQueue = <<accountList[maxAttempts + 1]>>

\* C23: a run of executeDynamicMultipleAccounts does not depend on earlier calls
\* on the instance: also after an executePrepareMode call, every account that
\* was taken from accountQueue with a validated route has had its state machine
\* started, and has a result when the run returns without the ceiling elapsing.
C23_DynamicRunStartsBoundAccounts ==
    /\ runPhase \in {"running", "returned"} =>
          \A a \in Range(accountList) \ Range(accountQueue) : startCount[a] > 0
    /\ (runPhase = "returned" /\ ~timedOut) =>
          \A a \in Range(accountList) \ Range(accountQueue) : a \in MapKeys(finalResults)

\* C32: executeDynamicMultipleAccounts returns before the ceiling has elapsed
\* only when no account is left in accountQueue and no state machine is left in
\* runningTasks, and the array it then returns holds a result for every account
\* of the input list.
C32_ReturnsOnlyWhenAllSettled ==
    /\ [][(runPhase = "running" /\ runPhase' = "returned" /\ ~timedOut') =>
             (Len(accountQueue) = 0 /\ runningTasks = {})]_vars
    /\ []((runPhase = "returned" /\ ~timedOut) =>
             \A a \in Range(accountList) : Cardinality(ResultsOf(finalResults, a)) > 0)

\* C24: while executePrepareMode runs, and after it until startPurchaseFlow is
\* called, no state machine has been started: runningTasks is empty and bound
\* accounts are only recorded in preparedAccounts; startPurchaseFlow then
\* starts exactly one state machine for every prepared account in one step,
\* before any of them has produced a result, and starts none afterwards.
C24_PrepareStartsNothing ==
    /\ [](runPhase \in {"preparing", "prepared"} =>
             /\ runningTasks = {}
             /\ results = <<>>
             /\ \A a \in Accounts : startCount[a] = 0
             /\ Range(accountList) \ Range(accountQueue) = MapKeys(preparedAccounts))
    /\ [][/\ (runPhase = "prepared" /\ runPhase' = "started") =>
                /\ runningTasks' = MapKeys(preparedAccounts)
                /\ \A a \in Accounts :
                      startCount'[a] = IF a \in MapKeys(preparedAccounts) THEN 1 ELSE 0
                /\ results' = <<>>
          /\ runPhase = "started" => startCount' = startCount]_vars

C24_Witness ==
    /\ runPhase = "collected"
    /\ accountList = <<2, 1>>
    /\ MapKeys(preparedAccounts) = {1, 2}
    /\ \A a \in Accounts : startCount[a] = 1
    /\ failedTests > 0

\* C25: when startPurchaseFlow has ended after an executePrepareMode call, one
\* outcome has been collected for every account that was passed to
\* executePrepareMode, also for the accounts that got no route while preparing.
C25_TwoPhaseOutcomePerAccount ==
    runPhase \in {"collected", "startThrew"} =>
        /\ MapKeys(finalResults) = Range(accountList)
        /\ Len(finalResults) = Len(accountList)

\* what the run holds for an account: its manager, its place in the waiting
\* queue, whether its task runs, and its recorded result
AccountView(b) ==
    [switchCount |-> switchCount[b], currentProxy |-> currentProxy[b],
     call |-> swpc[b], returned |-> swRet[b],
     waiting |-> {i \in 1..Len(accountQueue) : accountQueue[i] = b},
     running |-> b \in runningTasks,
     result |-> {results[i] : i \in {k \in 1..Len(results) : results[k].key = b}}]

\* C26: a step of one account's task (a switchProxy call and each of its
\* continuations, successful or exhausted, and the end of the task with a
\* result or a terminal failure) leaves every other account's manager, queue
\* position, task and recorded result as they were.
C26_TaskIsolation ==
    [][\A a \in Accounts : \A b \in Accounts \ {a} :
          actor' = a => AccountView(b)' = AccountView(b)]_vars

C26_Witness ==
    /\ actor = 1
    /\ swpc[1] = "ret"
    /\ swRet[1] = NoProxy
    /\ switchCount[1] = maxSwitchAttempts
    /\ accountQueue = <<2>>

\* C9: when the allocator loop used up its attempts with accounts still waiting,
\* every such account is in the returned results as failed with a
\* no-route-available reason.
C9_UnmatchedReportedNoRoute ==
    (runPhase = "returned" /\ attempt > maxAttempts) =>
        \A a \in Range(accountQueue) :
            \E i \in DOMAIN finalResults :
                /\ finalResults[i].key = a
                /\ ~finalResults[i].val.success
                /\ finalResults[i].val.error = "noRouteAvailable"

\* C10: when the monitor loop stopped on the 300 s ceiling, every account that was
\* waiting or in flight at that moment is in the returned results as failed with a
\* timeout reason.
C10_PendingReportedTimeout ==
    (runPhase = "returned" /\ timedOut) =>
        \A a \in pendingAtTimeout :
            \E i \in DOMAIN finalResults :
                /\ finalResults[i].key = a
                /\ ~finalResults[i].val.success
                /\ finalResults[i].val.error = "timeout"

====
